---- MODULE Spec2Model ----
(***************************************************************************)
(* A model of the gamelogs engine of Lookout: the ResultAnalyzer state     *)
(* machine (src/gamelogs/analyzer.py), the role table and value types it   *)
(* uses (src/gamelogs/model.py) and the line classifier                    *)
(* (src/gamelogs/messages.py, src/gamelogs/parse.py).                      *)
(*                                                                         *)
(* Python values are written as follows.  None is the empty tuple <<>>     *)
(* where the code tests truthiness (died, hunt_reached, prev_role) and     *)
(* the string "None" where a faction may be None; the Faction singleton    *)
(* `unknown` is "Unknown".  A (day, phase) tuple is <<day, phase>>.        *)
(* Player objects live in the heap `objs`; a reference to a Player is its  *)
(* index in `objs`, so that two references to one object (the roster, the  *)
(* townie_colours list, the vip field) see each other's writes.            *)
(***************************************************************************)
EXTENDS Integers, Sequences, FiniteSets, TLC

VARIABLES
    objs,            \* heap of Player objects, in allocation order
    players,         \* self.players: dict game_name -> Player, as the sequence of
                     \* references in insertion order (keys are objs[id].game_name)
    townie_colours,  \* self.townie_colours: list of (player, colour)
    coven_colour,    \* self.coven_colour: <<>> or <<colour>>
    dced,            \* self.dced
    hunt_reached,    \* self.hunt_reached: <<>> or <<int>>
    in_trib,         \* self.in_trib
    trial_period,    \* self.trial_period
    time,            \* self.time
    modifiers,       \* self.modifiers
    death_popped,    \* self.death_popped
    draw_tomorrow,   \* self.draw_tomorrow
    vip,             \* self.vip: <<>> or <<reference>>
    zipped,          \* TRUE when parse() was given ResultAnalyzer() & MessageCountAnalyzer()
    count,           \* MessageCountAnalyzer.count
    pc,              \* "run": parse() is feeding messages; "failed": an exception
                     \* left parse(); "returned": result() returned a GameResult
    err,             \* the exception that left parse(), <<type, argument>>; <<>> when none
    victor,          \* result()'s local `victor` at its last statement
    branch,          \* which branch of result() assigned `victor`
    lines,           \* to_messages: the lines of the text
    at,              \* to_messages: the position of the line the loop is at
    out,             \* to_messages: the messages yielded so far
    first,           \* <<>>, or <<what an earlier parse() of the same lines ended with>>
    db,              \* <<>>, or the stored row of Games that Stats reads and re-analyses
    pair,            \* <<>>, or two MessageCountAnalyzers, zipped and alone
    body,            \* to_lines: the children of the body element, in document order
    child,           \* to_lines: the index in body of the child the loop visits next
    cur_line,        \* to_lines: the list `line` being filled
    operands         \* the DayTime values at hand for a comparison

vars == <<objs, players, townie_colours, coven_colour, dced, hunt_reached, in_trib,
          trial_period, time, modifiers, death_popped, draw_tomorrow, vip, zipped,
          count, pc, err, victor, branch, lines, at, out, first, db, pair, body, child,
          cur_line, operands>>

lexer == <<lines, at, out>>

splitter == <<body, child, cur_line>>

analyzer == <<objs, players, townie_colours, coven_colour, dced, hunt_reached, in_trib,
              trial_period, time, modifiers, death_popped, draw_tomorrow, vip>>

-----------------------------------------------------------------------------
(* model.py: factions, roles, identities *)

unknown == "Unknown"
town == "Town"
coven == "Coven"
apocalypse == "Apocalypse"
arsonist == "Arsonist"
serial_killer == "Serial Killer"
shroud == "Shroud"
werewolf == "Werewolf"
vampire == "Vampire"

Role(name, default_faction) == [name |-> name, default_faction |-> default_faction]

by_bucket ==
    << [bucket |-> "Town Investigative", roles |->
          << Role("Coroner", town), Role("Investigator", town), Role("Lookout", town),
             Role("Psychic", town), Role("Seer", town), Role("Sheriff", town),
             Role("Spy", town), Role("Tracker", town) >>],
       [bucket |-> "Town Protective", roles |->
          << Role("Bodyguard", town), Role("Cleric", town), Role("Crusader", town),
             Role("Oracle", town), Role("Trapper", town) >>],
       [bucket |-> "Town Killing", roles |->
          << Role("Deputy", town), Role("Trickster", town), Role("Veteran", town),
             Role("Vigilante", town) >>],
       [bucket |-> "Town Support", roles |->
          << Role("Admirer", town), Role("Amnesiac", town), Role("Retributionist", town),
             Role("Socialite", town), Role("Tavern Keeper", town) >>],
       [bucket |-> "Town Power", roles |->
          << Role("Jailor", town), Role("Marshal", town), Role("Mayor", town),
             Role("Monarch", town), Role("Prosecutor", town) >>],
       [bucket |-> "Town Outlier", roles |->
          << Role("Catalyst", town), Role("Pilgrim", town) >>],
       [bucket |-> "Coven Power", roles |->
          << Role("Coven Leader", coven), Role("Hex Master", coven), Role("Witch", coven) >>],
       [bucket |-> "Coven Killing", roles |->
          << Role("Conjurer", coven), Role("Jinx", coven), Role("Ritualist", coven) >>],
       [bucket |-> "Coven Deception", roles |->
          << Role("Dreamweaver", coven), Role("Enchanter", coven),
             Role("Illusionist", coven), Role("Medusa", coven) >>],
       [bucket |-> "Coven Utility", roles |->
          << Role("Necromancer", coven), Role("Poisoner", coven),
             Role("Potion Master", coven), Role("Voodoo Master", coven),
             Role("Wildling", coven) >>],
       [bucket |-> "Coven Outlier", roles |->
          << Role("Covenite", coven), Role("Cultist", coven) >>],
       [bucket |-> "Neutral Evil", roles |->
          << Role("Doomsayer", "None"), Role("Executioner", "None"),
             Role("Jester", "None"), Role("Pirate", "None") >>],
       [bucket |-> "Neutral Killing", roles |->
          << Role("Arsonist", arsonist), Role("Serial Killer", serial_killer),
             Role("Shroud", shroud), Role("Werewolf", werewolf) >>],
       [bucket |-> "Neutral Apocalypse", roles |->
          << Role("Baker", apocalypse), Role("Berserker", apocalypse),
             Role("Plaguebearer", apocalypse), Role("Soul Collector", apocalypse),
             Role("Famine", apocalypse), Role("War", apocalypse),
             Role("Pestilence", apocalypse), Role("Death", apocalypse) >>],
       [bucket |-> "Neutral Outlier", roles |->
          << Role("Cursed Soul", "None"), Role("Vampire", vampire) >> ] >>

AllRoles ==
    UNION { { by_bucket[b].roles[i] : i \in DOMAIN by_bucket[b].roles } : b \in DOMAIN by_bucket }

RoleNames == { r.name : r \in AllRoles }

by_name == [n \in RoleNames |-> CHOOSE r \in AllRoles : r.name = n]

\* Identity(role, faction = unknown): an identity names its role and carries the faction
Identity(role, faction) ==
    [role |-> role.name,
     faction |-> IF faction # unknown THEN faction ELSE role.default_faction]

\* Player(number, game_name, account_name, starting_ident, ending_ident); `shared` says
\* that starting_ident and ending_ident are one Identity object
Player(number, game_name, account_name, starting_ident, ending_ident, shared) ==
    [number |-> number, game_name |-> game_name, account_name |-> account_name,
     starting_ident |-> starting_ident, ending_ident |-> ending_ident,
     shared |-> shared, died |-> <<>>, won |-> FALSE, hanged |-> FALSE]

\* p.ending_ident.faction = f
SetEndingFaction(p, f) ==
    [p EXCEPT !.ending_ident.faction = f,
              !.starting_ident.faction = IF p.shared THEN f ELSE @]

\* p.starting_ident.faction = f
SetStartingFaction(p, f) ==
    [p EXCEPT !.starting_ident.faction = f,
              !.ending_ident.faction = IF p.shared THEN f ELSE @]

-----------------------------------------------------------------------------
(* the roster dict *)

Keys(o, ps) == { o[ps[i]].game_name : i \in DOMAIN ps }

\* self.players[who] for a key that is present
Ref(o, ps, who) == ps[CHOOSE i \in DOMAIN ps : o[ps[i]].game_name = who]

\* self.players[game_name] = player, for the reference id of a new object
DictSet(o, ps, game_name, id) ==
    IF game_name \in Keys(o, ps)
    THEN [i \in DOMAIN ps |-> IF o[ps[i]].game_name = game_name THEN id ELSE ps[i]]
    ELSE Append(ps, id)

\* self.players.values()
Values(o, ps) == [i \in DOMAIN ps |-> o[ps[i]]]

-----------------------------------------------------------------------------
(* ResultAnalyzer *)

\* ResultAnalyzer.__init__ and MessageCountAnalyzer.__init__
Fresh ==
    /\ objs = <<>>
    /\ players = <<>>
    /\ townie_colours = <<>>
    /\ coven_colour = <<>>
    /\ dced = {}
    /\ hunt_reached = <<>>
    /\ in_trib = FALSE
    /\ trial_period = FALSE
    /\ time = <<1, "day">>
    /\ modifiers = <<>>
    /\ death_popped = FALSE
    /\ draw_tomorrow = FALSE
    /\ vip = <<>>
    /\ count = 0
    /\ pc = "run"
    /\ err = <<>>
    /\ victor = unknown
    /\ branch = "none"

\* parse_result(text): parse(text, ResultAnalyzer())
Init == Fresh /\ zipped = FALSE /\ lines = <<>> /\ at = 1 /\ out = <<>> /\ first = <<>> /\ db = <<>> /\ pair = <<>> /\ body = <<>> /\ child = 1 /\ cur_line = <<>> /\ operands = <<>>

\* an exception leaves ResultAnalyzer.get_message() or result(): parse() ends with it, and
\* ZipAnalyzer.get_message does not reach self.y.get_message
Raise(e) ==
    /\ pc' = "failed"
    /\ err' = e
    /\ UNCHANGED <<zipped, count, lexer, first, db, pair, splitter, operands>>

\* get_message() returns: ZipAnalyzer.get_message goes on to MessageCountAnalyzer.get_message
\* and the loop of parse() to the next line, when parse() is reading lines
Continue ==
    /\ pc' = pc
    /\ err' = err
    /\ zipped' = zipped
    /\ count' = IF zipped THEN count + 1 ELSE count
    /\ at' = IF at <= Len(lines) THEN at + 1 ELSE at
    /\ UNCHANGED <<lines, out, first, db, pair, splitter, operands>>

\* DiedAt that never backdates
DiedAtNow(now, last_night) == now

\* kill(): the DayTime written to player.died
DiedAt(now, last_night) == IF last_night THEN <<now[1] - 1, "night">> ELSE now

\* kill(who, last_night) for a key of the roster, at self.time = now: the heap afterwards
KillIn(o, ps, who, now, last_night) ==
    LET id == Ref(o, ps, who)
    IN  IF o[id].died = <<>>
        THEN [o EXCEPT ![id].died = DiedAt(now, last_night)]
        ELSE o

\* kill(): what becomes of self.draw_tomorrow
DrawAfterKill(o, ps, who, draw) ==
    IF o[Ref(o, ps, who)].died = <<>> THEN FALSE ELSE draw

\* kill(who, last_night=...) as the whole of a handler
kill(who, last_night) ==
    IF who \in Keys(objs, players)
    THEN /\ objs' = KillIn(objs, players, who, time, last_night)
         /\ draw_tomorrow' = DrawAfterKill(objs, players, who, draw_tomorrow)
         /\ Continue
    ELSE /\ Raise(<<"KeyError", who>>)
         /\ UNCHANGED <<objs, draw_tomorrow>>

\* judge_miscoloured_townies(): the heap afterwards, townie_colours[i..] still to visit
RECURSIVE JudgeObjs(_, _)
JudgeObjs(o, i) ==
    IF i > Len(townie_colours) THEN o
    ELSE LET id == townie_colours[i][1]
             hit == <<townie_colours[i][2]>> = coven_colour
         IN  JudgeObjs(IF hit
                       THEN [o EXCEPT ![id] = SetEndingFaction(SetStartingFaction(o[id], coven), coven)]
                       ELSE o, i + 1)

\* judge_miscoloured_townies(): the tags appended to self.modifiers
JudgeTags ==
    [i \in 1..Cardinality({ j \in DOMAIN townie_colours : <<townie_colours[j][2]>> = coven_colour })
       |-> "Town Traitor"]

\* the objects something other than the roster refers to
Held == { townie_colours[i][1] : i \in DOMAIN townie_colours } \cup { vip[i] : i \in DOMAIN vip }

\* The reference of the Player that PlayerInfo creates.  The object the roster held under
\* the same name becomes garbage when nothing else refers to it, and the new object then
\* takes its place in the heap; otherwise the heap grows.
NewRef(game_name) ==
    IF game_name \in Keys(objs, players) /\ Ref(objs, players, game_name) \notin Held
    THEN Ref(objs, players, game_name)
    ELSE Len(objs) + 1

\* UnsupportedRole that names the shown role whichever lookup failed
UnsupportedRoleShown(m) ==
    IF m.role[1] \notin RoleNames \/ (m.prev_role # <<>> /\ m.prev_role[1] \notin RoleNames)
    THEN <<m.role[1]>>
    ELSE <<>>

\* the key of the KeyError that by_name[role[0]] or by_name[prev_role[0]] raises, in the
\* order the try block looks them up; <<>> when both lookups succeed
UnsupportedRole(m) ==
    IF m.role[1] \notin RoleNames THEN <<m.role[1]>>
    ELSE IF m.prev_role # <<>> /\ m.prev_role[1] \notin RoleNames THEN <<m.prev_role[1]>>
    ELSE <<>>

\* PlayerInfo that leaves the ending identity with the faction of its own role
EndingIdentShown(ending_ident, starting_ident) == ending_ident

\* PlayerInfo: ending_ident after
\* `if ending_ident.role.name != "Vampire": ending_ident.faction = starting_ident.faction`
EndingIdent(ending_ident, starting_ident) ==
    IF ending_ident.role # "Vampire"
    THEN [ending_ident EXCEPT !.faction = starting_ident.faction]
    ELSE ending_ident

\* case PlayerInfo(number, game_name, account_name, role, prev_role, _, is_vip)
GetPlayerInfo(m) ==
    /\ pc = "run"
    /\ IF UnsupportedRole(m) # <<>>
       THEN /\ Raise(<<"UnsupportedRoleError", UnsupportedRole(m)[1]>>)
            /\ UNCHANGED analyzer
       ELSE LET shared == m.prev_role = <<>>
                ending0 == Identity(by_name[m.role[1]], unknown)
                starting_ident == IF shared THEN ending0
                                  ELSE Identity(by_name[m.prev_role[1]], unknown)
                faction_colour_shown == ending0.faction
                ending_ident == EndingIdent(ending0, starting_ident)
                player == Player(m.number, m.game_name, m.account_name,
                                 starting_ident, ending_ident, shared)
                id == NewRef(m.game_name)
            IN  /\ objs' = IF id = Len(objs) + 1 THEN Append(objs, player)
                            ELSE [objs EXCEPT ![id] = player]
                /\ vip' = IF m.is_vip THEN <<id>> ELSE vip
                /\ modifiers' = IF m.is_vip THEN Append(modifiers, "VIP") ELSE modifiers
                /\ players' = DictSet(objs', players, m.game_name, id)
                /\ coven_colour' = IF faction_colour_shown = coven
                                   THEN <<m.role[2]>> ELSE coven_colour
                /\ townie_colours' = IF faction_colour_shown # coven /\ faction_colour_shown = town
                                     THEN Append(townie_colours, <<id, m.role[2]>>)
                                     ELSE townie_colours
                /\ Continue
                /\ UNCHANGED <<dced, hunt_reached, in_trib, trial_period, time,
                               death_popped, draw_tomorrow>>
    /\ UNCHANGED <<victor, branch>>

\* case LeftAWill(who)
GetLeftAWill(who) ==
    /\ pc = "run"
    /\ kill(who, FALSE)
    /\ UNCHANGED <<players, townie_colours, coven_colour, dced, hunt_reached, in_trib,
                   trial_period, time, modifiers, death_popped, vip, victor, branch>>

\* case Upped(who)
GetUpped(who) ==
    /\ pc = "run"
    /\ IF in_trib THEN kill(who, FALSE)
       ELSE Continue /\ UNCHANGED <<objs, draw_tomorrow>>
    /\ UNCHANGED <<players, townie_colours, coven_colour, dced, hunt_reached, in_trib,
                   trial_period, time, modifiers, death_popped, vip, victor, branch>>

\* case NightDeath(who)
GetNightDeath(who) ==
    /\ pc = "run"
    /\ kill(who, TRUE)
    /\ UNCHANGED <<players, townie_colours, coven_colour, dced, hunt_reached, in_trib,
                   trial_period, time, modifiers, death_popped, vip, victor, branch>>

\* case DayDeath(who)
GetDayDeath(who) ==
    /\ pc = "run"
    /\ kill(who, FALSE)
    /\ UNCHANGED <<players, townie_colours, coven_colour, dced, hunt_reached, in_trib,
                   trial_period, time, modifiers, death_popped, vip, victor, branch>>

\* FoundGuilty: the won flag after `if player.ending_ident.role.name == "Jester"`
GuiltyWon(p) == IF p.ending_ident.role = "Jester" THEN TRUE ELSE p.won

\* case FoundGuilty(who)
GetFoundGuilty(who) ==
    /\ pc = "run"
    /\ IF who \in Keys(objs, players)
       THEN LET id == Ref(objs, players, who)
                o1 == [objs EXCEPT ![id].won = GuiltyWon(objs[id])]
            IN  /\ objs' = KillIn(o1, players, who, time, FALSE)
                /\ draw_tomorrow' = DrawAfterKill(o1, players, who, draw_tomorrow)
                /\ Continue
       ELSE /\ Raise(<<"KeyError", who>>)
            /\ UNCHANGED <<objs, draw_tomorrow>>
    /\ UNCHANGED <<players, townie_colours, coven_colour, dced, hunt_reached, in_trib,
                   trial_period, time, modifiers, death_popped, vip, victor, branch>>

\* case DayStart(1)
GetDayStart1 ==
    /\ pc = "run"
    /\ objs' = JudgeObjs(objs, 1)
    /\ modifiers' = modifiers \o JudgeTags
    /\ Continue
    /\ UNCHANGED <<players, townie_colours, coven_colour, dced, hunt_reached, in_trib,
                   trial_period, time, death_popped, draw_tomorrow, vip, victor, branch>>

\* `for dc in S: self.kill(dc, last_night=True)` for keys of the roster: the heap afterwards
KillAll(o, ps, S, now) ==
    [id \in DOMAIN o |->
        IF id \in { Ref(o, ps, w) : w \in S } /\ o[id].died = <<>>
        THEN [o[id] EXCEPT !.died = DiedAt(now, TRUE)]
        ELSE o[id]]

\* the same loop: what becomes of self.draw_tomorrow
DrawAfterKillAll(o, ps, S, draw) ==
    IF \E w \in S : o[Ref(o, ps, w)].died = <<>> THEN FALSE ELSE draw

\* DayStart(n) without self.dced.clear()
DcedAfterDayKept(d) == d

\* what DayStart(n) leaves in self.dced when its loop ended normally
DcedAfterDay(d) == {}

\* case DayStart(n).  A name of self.dced that is no key of the roster raises KeyError
\* out of kill(); the names visited before it (set order) have been killed by then.
GetDayStart(n) ==
    /\ pc = "run"
    /\ n # 1
    /\ time' = <<n, "day">>
    /\ trial_period' = FALSE
    /\ IF dced \subseteq Keys(objs, players)
       THEN /\ objs' = KillAll(objs, players, dced, time')
            /\ draw_tomorrow' = DrawAfterKillAll(objs, players, dced, draw_tomorrow)
            /\ dced' = DcedAfterDay(dced)
            /\ Continue
       ELSE \E w \in dced \ Keys(objs, players) :
            \E S \in SUBSET (dced \cap Keys(objs, players)) :
               /\ objs' = KillAll(objs, players, S, time')
               /\ draw_tomorrow' = DrawAfterKillAll(objs, players, S, draw_tomorrow)
               /\ dced' = dced
               /\ Raise(<<"KeyError", w>>)
    /\ UNCHANGED <<players, townie_colours, coven_colour, hunt_reached, in_trib,
                   modifiers, death_popped, vip, victor, branch>>

\* NightStart that leaves the tribunal flag as it is
GetNightStartInTrib(n) ==
    /\ pc = "run"
    /\ time' = <<n, "night">>
    /\ death_popped' = FALSE
    /\ Continue
    /\ UNCHANGED <<objs, players, townie_colours, coven_colour, dced, hunt_reached, in_trib,
                   trial_period, modifiers, draw_tomorrow, vip, victor, branch>>

\* case NightStart(n)
GetNightStart(n) ==
    /\ pc = "run"
    /\ time' = <<n, "night">>
    /\ death_popped' = FALSE
    /\ in_trib' = FALSE
    /\ Continue
    /\ UNCHANGED <<objs, players, townie_colours, coven_colour, dced, hunt_reached,
                   trial_period, modifiers, draw_tomorrow, vip, victor, branch>>

\* LeftTown without the loop over the Cursed Souls
LeftTownWonAlone(them, p, is_them) == IF is_them THEN TRUE ELSE p.won

\* LeftTown: the won flag of player p when `them` leaves town
LeftTownWon(them, p, is_them) ==
    IF them.starting_ident.role = "Cursed Soul"
    THEN (IF p.starting_ident.role = "Cursed Soul" THEN TRUE ELSE p.won)
    ELSE (IF is_them THEN TRUE ELSE p.won)

\* case LeftTown(who, _)
GetLeftTown(who) ==
    /\ pc = "run"
    /\ IF who \in Keys(objs, players)
       THEN LET them == Ref(objs, players, who)
                inRoster == { players[i] : i \in DOMAIN players }
            IN  /\ objs' = [id \in DOMAIN objs |->
                              IF id \in inRoster
                              THEN [objs[id] EXCEPT !.won = LeftTownWon(objs[them], objs[id], id = them)]
                              ELSE objs[id]]
                /\ Continue
       ELSE /\ Raise(<<"KeyError", who>>)
            /\ UNCHANGED objs
    /\ UNCHANGED <<players, townie_colours, coven_colour, dced, hunt_reached, in_trib,
                   trial_period, time, modifiers, death_popped, draw_tomorrow, vip,
                   victor, branch>>

\* HuntWarning: `not self.hunt_reached`
HuntUnset(h) == h = <<>> \/ h = <<0>>

\* HuntDay without the three days that the warnings run ahead
HuntDayNoOffset(now, days_left) == now[1] + days_left

\* HuntWarning: the value assigned to self.hunt_reached
HuntDay(now, days_left) == now[1] + days_left - 3

\* case HuntWarning(days_left)
GetHuntWarning(days_left) ==
    /\ pc = "run"
    /\ hunt_reached' = IF HuntUnset(hunt_reached)
                       THEN <<HuntDay(time, days_left)>> ELSE hunt_reached
    /\ Continue
    /\ UNCHANGED <<objs, players, townie_colours, coven_colour, dced, in_trib,
                   trial_period, time, modifiers, death_popped, draw_tomorrow, vip,
                   victor, branch>>

\* case Tribunal()
GetTribunal ==
    /\ pc = "run"
    /\ in_trib' = TRUE
    /\ Continue
    /\ UNCHANGED <<objs, players, townie_colours, coven_colour, dced, hunt_reached,
                   trial_period, time, modifiers, death_popped, draw_tomorrow, vip,
                   victor, branch>>

\* case Disconnect(who)
GetDisconnect(who) ==
    /\ pc = "run"
    /\ dced' = dced \cup {who}
    /\ Continue
    /\ UNCHANGED <<objs, players, townie_colours, coven_colour, hunt_reached, in_trib,
                   trial_period, time, modifiers, death_popped, draw_tomorrow, vip,
                   victor, branch>>

\* Reconnect that writes the hanged field and leaves the recorded death
RevivedHanged(p) == [p EXCEPT !.hanged = TRUE]

\* `self.players[who].died = None`
Revived(p) == [p EXCEPT !.died = <<>>]

\* case Reconnect(who)
GetReconnect(who) ==
    /\ pc = "run"
    /\ IF who \in dced
       THEN /\ dced' = dced \ {who}
            /\ Continue
            /\ UNCHANGED objs
       ELSE IF who \in Keys(objs, players)
       THEN /\ objs' = [objs EXCEPT ![Ref(objs, players, who)] = Revived(@)]
            /\ Continue
            /\ UNCHANGED dced
       ELSE /\ Raise(<<"KeyError", who>>)
            /\ UNCHANGED <<objs, dced>>
    /\ UNCHANGED <<players, townie_colours, coven_colour, hunt_reached, in_trib,
                   trial_period, time, modifiers, death_popped, draw_tomorrow, vip,
                   victor, branch>>

\* a TrialsRemaining case with no guard that flips the flag
TrialPeriodFlipped(flag) == ~flag

\* self.trial_period after `case TrialsRemaining() if not self.trial_period`
TrialPeriod(flag) == IF ~flag THEN TRUE ELSE flag

\* case TrialsRemaining() if not self.trial_period
GetTrialsRemaining ==
    /\ pc = "run"
    /\ trial_period' = TrialPeriod(trial_period)
    /\ Continue
    /\ UNCHANGED <<objs, players, townie_colours, coven_colour, dced, hunt_reached,
                   in_trib, time, modifiers, death_popped, draw_tomorrow, vip,
                   victor, branch>>

\* case DeathPop()
GetDeathPop ==
    /\ pc = "run"
    /\ death_popped' = TRUE
    /\ Continue
    /\ UNCHANGED <<objs, players, townie_colours, coven_colour, dced, hunt_reached,
                   in_trib, trial_period, time, modifiers, draw_tomorrow, vip,
                   victor, branch>>

\* case DrawWarning()
GetDrawWarning ==
    /\ pc = "run"
    /\ draw_tomorrow' = TRUE
    /\ Continue
    /\ UNCHANGED <<objs, players, townie_colours, coven_colour, dced, hunt_reached,
                   in_trib, trial_period, time, modifiers, death_popped, vip,
                   victor, branch>>

\* a message no case of get_message matches: Chat, DeadChat, Whispering, StartJunk
GetOther ==
    /\ pc = "run"
    /\ Continue
    /\ UNCHANGED <<analyzer, victor, branch>>

-----------------------------------------------------------------------------
(* ResultAnalyzer.result *)

\* MinPlayers with the bound off by one
MinPlayersLow == 5 - 1

\* the roster size below which result() raises NotLogError
MinPlayers == 5

\* is_evil_raiser(ident)
is_evil_raiser(ident) ==
    ident.role = "Necromancer" \/ (ident.role = "Retributionist" /\ ident.faction # town)

\* the references of the roster, as a set
Roster(ps) == { ps[i] : i \in DOMAIN ps }

\* [x for x in self.players.values() if not x.died]
Alive(o, ps) == { id \in Roster(ps) : o[id].died = <<>> }

\* in_game, after in_game.discard(None)
in_game(o, ps) == { o[id].ending_ident.faction : id \in Alive(o, ps) } \ {"None"}

\* last_town that takes the dead Town players too
last_townAll(o, ps) == { id \in Roster(ps) : o[id].ending_ident.faction = town }

\* last_town := [x for x in self.players.values() if not x.died and x.ending_ident.faction == town]
last_town(o, ps) == { id \in Alive(o, ps) : o[id].ending_ident.faction = town }

\* any([x.starting_ident.role.name == "Cultist" for x in self.players.values()])
AnyCultist(o, ps) == \E id \in Roster(ps) : o[id].starting_ident.role = "Cultist"

\* the number of living Town players up to which the last Town are converted
VampireMaxTown == 3

\* the difference between the current day and hunt_reached that makes a hunt win
HuntLength == 3

\* `self.hunt_reached == self.time[0] - 3`
HuntWon(h, now) == h = <<now[1] - HuntLength>>

\* HexVictor that asks for a dead Hex Master
HexVictorDead(o, ps) ==
    LET hms == { i \in DOMAIN ps : o[ps[i]].ending_ident.role = "Hex Master" }
    IN  IF hms = {} THEN unknown
        ELSE LET i == CHOOSE i \in hms : \A j \in hms : i <= j
                 hm == o[ps[i]]
             IN  IF hm.died # <<>> \/ \E id \in Alive(o, ps) : is_evil_raiser(o[id].ending_ident)
                 THEN coven ELSE unknown

\* the `else` branch of the cascade: the first Hex Master of the roster decides
HexVictor(o, ps) ==
    LET hms == { i \in DOMAIN ps : o[ps[i]].ending_ident.role = "Hex Master" }
    IN  IF hms = {} THEN unknown
        ELSE LET i == CHOOSE i \in hms : \A j \in hms : i <= j
                 hm == o[ps[i]]
             IN  IF hm.died = <<>> \/ \E id \in Alive(o, ps) : is_evil_raiser(o[id].ending_ident)
                 THEN coven ELSE unknown

\* Early without the `elif len(in_game) == 1` case
EarlyNoSingle(o, ps) ==
    IF in_game(o, ps) = {} THEN [branch |-> "draw", victor |-> "None"]
    ELSE [branch |-> "cascade", victor |-> unknown]

\* Early without the `if not in_game` case
EarlyNoDraw(o, ps) ==
    IF Cardinality(in_game(o, ps)) = 1
    THEN [branch |-> "single", victor |-> CHOOSE f \in in_game(o, ps) : TRUE]
    ELSE [branch |-> "cascade", victor |-> unknown]

\* lines 156-162: the victor and the branch before the cascade
Early(o, ps) ==
    IF in_game(o, ps) = {} THEN [branch |-> "draw", victor |-> "None"]
    ELSE IF Cardinality(in_game(o, ps)) = 1
    THEN [branch |-> "single", victor |-> CHOOSE f \in in_game(o, ps) : TRUE]
    ELSE [branch |-> "cascade", victor |-> unknown]

\* CascadeBranch with the hunt test ahead of the death-pop test
CascadeBranchHuntFirst(o, ps) ==
    IF HuntWon(hunt_reached, time) THEN "hunt"
    ELSE IF death_popped THEN "death"
    ELSE IF draw_tomorrow THEN "no_deaths"
    ELSE IF /\ in_game(o, ps) = {town, coven}
            /\ Cardinality(last_town(o, ps)) = 1
            /\ AnyCultist(o, ps) THEN "indoctrinated"
    ELSE IF /\ in_game(o, ps) = {town, vampire}
            /\ Cardinality(last_town(o, ps)) <= VampireMaxTown THEN "converted"
    ELSE IF HexVictor(o, ps) = coven THEN "hex"
    ELSE "unresolved"

\* lines 164-197: the branch of the cascade that is taken
CascadeBranch(o, ps) ==
    IF death_popped THEN "death"
    ELSE IF HuntWon(hunt_reached, time) THEN "hunt"
    ELSE IF draw_tomorrow THEN "no_deaths"
    ELSE IF /\ in_game(o, ps) = {town, coven}
            /\ Cardinality(last_town(o, ps)) = 1
            /\ AnyCultist(o, ps) THEN "indoctrinated"
    ELSE IF /\ in_game(o, ps) = {town, vampire}
            /\ Cardinality(last_town(o, ps)) <= VampireMaxTown THEN "converted"
    ELSE IF HexVictor(o, ps) = coven THEN "hex"
    ELSE "unresolved"

\* the victor the taken branch assigns
CascadeVictor(o, ps, b) ==
    CASE b = "death" -> apocalypse
      [] b = "hunt" -> coven
      [] b = "no_deaths" -> "None"
      [] b = "indoctrinated" -> coven
      [] b = "converted" -> vampire
      [] b = "hex" -> HexVictor(o, ps)
      [] b = "unresolved" -> unknown

\* CascadeObjs that reclassifies nobody
CascadeObjsNone(o, ps, b) == o

\* the heap after the taken branch reclassified the last Town players
CascadeObjs(o, ps, b) ==
    [id \in DOMAIN o |->
        IF b \in {"indoctrinated", "converted"} /\ id \in last_town(o, ps)
        THEN SetEndingFaction(o[id], IF b = "indoctrinated" THEN coven ELSE vampire)
        ELSE o[id]]

\* FinalWon that crowns the living only
FinalWonAlive(p, v) == IF p.ending_ident.faction = v /\ p.died = <<>> THEN TRUE ELSE p.won

\* FinalWon that crowns everybody
FinalWonAll(p, v) == TRUE

\* lines 199-201: the won flag of a player of the roster once the victor is known
FinalWon(p, v) == IF p.ending_ident.faction = v THEN TRUE ELSE p.won

\* the fields of the GameResult dataclass, none of which has a default
GameResultFields ==
    <<"players", "victor", "hunt_reached", "modifiers", "vip", "ended", "outcome">>

\* the arguments result() passes to GameResult, positionally
GameResultArgs(o, ps, v) ==
    <<Values(o, ps), v, hunt_reached, modifiers, vip, time>>

\* GameResult(*args): the exception the generated __init__ raises, <<>> when none
GameResultInit(args) ==
    IF Len(args) < Len(GameResultFields)
    THEN <<"TypeError", GameResultFields[Len(args) + 1]>>
    ELSE <<>>

\* lines 154-197: the branch taken, the victor it assigns and the heap it leaves
Resolve(o, ps) ==
    LET early == Early(o, ps)
    IN  IF early.victor # unknown
        THEN [branch |-> early.branch, victor |-> early.victor, objs |-> o]
        ELSE LET b == CascadeBranch(o, ps)
             IN  [branch |-> b, victor |-> CascadeVictor(o, ps, b),
                  objs |-> CascadeObjs(o, ps, b)]

\* lines 199-201: the heap after the loop that sets the won flags
Crown(o, ps, v) ==
    [id \in DOMAIN o |->
        IF id \in Roster(ps) THEN [o[id] EXCEPT !.won = FinalWon(o[id], v)] ELSE o[id]]

\* result()
Result ==
    /\ pc = "run"
    /\ IF Len(players) < MinPlayers
       THEN /\ Raise(<<"NotLogError", "input is not a gamelog">>)
            /\ UNCHANGED <<objs, victor, branch>>
       ELSE \E r \in {Resolve(objs, players)} :
            \E o2 \in {Crown(r.objs, players, r.victor)} :
            \E e \in {GameResultInit(GameResultArgs(o2, players, r.victor))} :
                /\ objs' = o2
                /\ victor' = r.victor
                /\ branch' = r.branch
                /\ IF e = <<>>
                   THEN pc' = "returned" /\ err' = err /\ UNCHANGED <<zipped, count, lexer, first, db, pair, splitter, operands>>
                   ELSE Raise(e)
    /\ UNCHANGED <<players, townie_colours, coven_colour, dced, hunt_reached, in_trib,
                   trial_period, time, modifiers, death_popped, draw_tomorrow, vip>>

-----------------------------------------------------------------------------
(* parse_result(text): the messages of the text, one at a time, then result() *)

\* the last day a DayStart or NightStart of the checked logs names
MaxDay == 8

TownColour == "06E00C"
CovenColour == "B545FF"

\* a PlayerInfo message; the account of seat n is "acc<n>"
Info(number, game_name, role, prev_role, is_vip) ==
    [number |-> number, game_name |-> game_name, account_name |-> "acc" \o game_name,
     role |-> role, prev_role |-> prev_role, is_vip |-> is_vip]

\* the in-game names of the checked logs, and a name no PlayerInfo introduces
Names == {"p1", "p2", "p3", "p4", "p5"}
Stranger == "zz"
\* the names the events of the checked logs carry: a listed player or the stranger
Whos == Keys(objs, players) \cup {Stranger}

\* the PlayerInfo lines of the checked logs
CoreInfos ==
    { Info(1, "p1", <<"Sheriff", TownColour>>, <<>>, FALSE),
      Info(1, "p1", <<"Banshee", "000000">>, <<>>, FALSE),
      Info(2, "p2", <<"Sheriff", TownColour>>, <<>>, FALSE),
      Info(2, "p2", <<"Jester", "000000">>, <<>>, FALSE),
      Info(3, "p3", <<"Hex Master", CovenColour>>, <<>>, FALSE),
      Info(3, "p3", <<"Coven Leader", CovenColour>>, <<>>, FALSE),
      Info(4, "p4", <<"Cultist", CovenColour>>, <<>>, FALSE),
      Info(4, "p4", <<"Vampire", "000000">>, <<"Sheriff", TownColour>>, FALSE),
      Info(5, "p5", <<"Coven Leader", CovenColour>>, <<>>, FALSE) }

\* the logs list a new player in the seat after the last one; a line that repeats a name
\* replaces a record that nothing but the roster refers to
Listed(m) ==
    IF m.game_name \in Keys(objs, players)
    THEN NewRef(m.game_name) <= Len(objs)
    ELSE m.number = Len(players) + 1

Days == 1..MaxDay
LaterDays == 2..MaxDay

HuntDigits == {0, 3}

\* the players the checked logs put on trial, and those that leave town
Defendants == {"p2", Stranger}
Leavers == {"p2", Stranger}

Next ==
    \/ \E m \in CoreInfos : Listed(m) /\ GetPlayerInfo(m)
    \/ \E who \in Whos : GetNightDeath(who)
    \/ \E who \in Defendants : GetFoundGuilty(who)
    \/ \E who \in Leavers : GetLeftTown(who)
    \/ \E k \in HuntDigits : GetHuntWarning(k)
    \/ GetDeathPop
    \/ GetDrawWarning
    \/ Result

Spec == Init /\ [][Next]_vars

-----------------------------------------------------------------------------
(* parse_result on logs of a Town Traitor game that runs for days *)

HuntInfos ==
    { Info(1, "p1", <<"Sheriff", TownColour>>, <<>>, FALSE),
      Info(2, "p2", <<"Jailor", TownColour>>, <<>>, FALSE),
      Info(3, "p3", <<"Coven Leader", CovenColour>>, <<>>, FALSE),
      Info(4, "p4", <<"Poisoner", CovenColour>>, <<>>, FALSE),
      Info(5, "p5", <<"Witch", CovenColour>>, <<>>, FALSE) }

\* the players that die in these logs
HuntVictims == {"p1", "p2"}

NextHunt ==
    \/ \E m \in HuntInfos : Listed(m) /\ GetPlayerInfo(m)
    \/ \E who \in HuntVictims \cap Keys(objs, players) : GetNightDeath(who)
    \/ \E n \in LaterDays : GetDayStart(n)
    \/ \E n \in Days : GetNightStart(n)
    \/ \E k \in HuntDigits : GetHuntWarning(k)
    \/ GetDeathPop
    \/ Result

SpecHunt == Init /\ [][NextHunt]_vars

-----------------------------------------------------------------------------
(* parse_result on logs whose player list has a VIP, unsupported roles and repeated names *)

RosterInfos ==
    { Info(1, "p1", <<"Sheriff", TownColour>>, <<>>, TRUE),
      Info(2, "p2", <<"Jester", "000000">>, <<>>, FALSE),
      Info(2, "p2", <<"Banshee", "000000">>, <<>>, FALSE),
      Info(2, "p2", <<"Sheriff", TownColour>>, <<"Warlock", "000000">>, FALSE),
      Info(3, "p3", <<"Coven Leader", CovenColour>>, <<>>, FALSE),
      Info(3, "p3", <<"Judge", "000000">>, <<"Auditor", "000000">>, FALSE),
      Info(4, "p4", <<"Jailor", TownColour>>, <<>>, FALSE),
      Info(5, "p5", <<"Witch", CovenColour>>, <<>>, TRUE),
      Info(6, "p2", <<"Executioner", "000000">>, <<>>, FALSE) }

\* the players that die in these logs
RosterVictims == {"p1", "p2"}

NextRoster ==
    \/ \E m \in RosterInfos : Listed(m) /\ GetPlayerInfo(m)
    \/ \E who \in RosterVictims \cap Keys(objs, players) : GetNightDeath(who)
    \/ GetFoundGuilty("p2")
    \/ Result

SpecRoster == Init /\ [][NextRoster]_vars

-----------------------------------------------------------------------------
(* messages.py: lines, cells and the recognizers *)

\* Python's None where a str is expected (element.text, element.get("style"), a dict key)
None == "None"

\* s[i] for 0 <= i < len(s)
At(s, i) == SubSeq(s, i + 1, i + 1)

\* a slice bound as Python normalises it
Bound(n, i) == IF i < 0 THEN (IF n + i < 0 THEN 0 ELSE n + i) ELSE (IF i > n THEN n ELSE i)

\* s[i:j]
Slice(s, i, j) ==
    LET a == Bound(Len(s), i)
        b == Bound(Len(s), j)
    IN  IF a >= b THEN "" ELSE SubSeq(s, a + 1, b)

\* s[i:]
SliceFrom(s, i) == Slice(s, i, Len(s))

StartsWith(s, p) == Len(p) <= Len(s) /\ SubSeq(s, 1, Len(p)) = p

\* the decimal digits, and a character that str.isdigit() accepts and int() rejects
Digits == {"0", "1", "2", "3", "4", "5", "6", "7", "8", "9"}
Superscripts == {"²"}
Whitespace == {" ", "\n", "\t"}

AllIn(s, chars) == \A i \in 0..(Len(s) - 1) : At(s, i) \in chars

\* str.isdigit()
isdigit(s) == Len(s) > 0 /\ AllIn(s, Digits \cup Superscripts)

DigitValue(c) ==
    CASE c = "0" -> 0 [] c = "1" -> 1 [] c = "2" -> 2 [] c = "3" -> 3 [] c = "4" -> 4
      [] c = "5" -> 5 [] c = "6" -> 6 [] c = "7" -> 7 [] c = "8" -> 8 [] c = "9" -> 9

RECURSIVE Decimal(_)
Decimal(s) ==
    IF Len(s) = 0 THEN 0
    ELSE 10 * Decimal(Slice(s, 0, Len(s) - 1)) + DigitValue(At(s, Len(s) - 1))

\* int(s) for a text of letters, digits, brackets and superscripts: the value, or
\* ValueError for anything but a non-empty run of decimal digits
int(s) ==
    IF Len(s) > 0 /\ AllIn(s, Digits)
    THEN [raised |-> "", value |-> Decimal(s)]
    ELSE [raised |-> "ValueError", value |-> 0]

\* str.strip()
RECURSIVE strip(_)
strip(s) ==
    IF Len(s) = 0 THEN s
    ELSE IF At(s, 0) \in Whitespace THEN strip(SliceFrom(s, 1))
    ELSE IF At(s, Len(s) - 1) \in Whitespace THEN strip(Slice(s, 0, Len(s) - 1))
    ELSE s

\* str.replace(old, new) for a one-character old
RECURSIVE replace(_, _, _)
replace(s, old, new) ==
    IF Len(s) = 0 THEN s
    ELSE (IF At(s, 0) = old THEN new ELSE At(s, 0)) \o replace(SliceFrom(s, 1), old, new)

\* str.split(sep): the list of pieces
RECURSIVE split(_, _)
split(s, sep) ==
    LET hits == { i \in 0..(Len(s) - Len(sep)) : Slice(s, i, i + Len(sep)) = sep }
    IN  IF hits = {} THEN <<s>>
        ELSE LET i == CHOOSE i \in hits : \A j \in hits : i <= j
             IN  <<Slice(s, 0, i)>> \o split(SliceFrom(s, i + Len(sep)), sep)

\* an element of the body: its leading text (None without one), the text of its
\* descendants, its style attribute (None without one), and the elements the two
\* tooltip selectors of PlayerInfo find in it
Cell(text, inner, style, prev, will) ==
    [text |-> text, inner |-> inner, style |-> style, prev |-> prev, will |-> will]

\* an element without tooltips
Span(text, style) == Cell(text, "", style, <<>>, <<>>)

\* a tag inside a tooltip, for parse_role
Tag(text, style) == [text |-> text, style |-> style]

get_text(x) == (IF x.text = None THEN "" ELSE x.text) \o x.inner

\* the outcome of a call: a value, or the exception that left it
Returned(v) == [raised |-> "", value |-> v]
Raised(e) == [raised |-> e, value |-> <<>>]
NotMessage == "NotMessage"

\* Line.__getitem__ would raise NotMessage for this index
NoIndex(line, index) ==
    IF index >= 0 THEN index >= Len(line) ELSE -index > Len(line)

\* Line.__getitem__ for an index the line has
Item(line, index) == IF index >= 0 THEN line[index + 1] ELSE line[Len(line) + index + 1]

\* Chat.from_line
ChatFromLine(line) ==
    IF NoIndex(line, 2) THEN Raised(NotMessage)
    ELSE IF Item(line, 2).style \notin {None, ""} THEN Raised(NotMessage)
    ELSE LET number == Item(line, 0).text
         IN  IF number = None THEN Raised("TypeError")
             ELSE IF Len(number) = 0 THEN Raised("IndexError")
             ELSE IF At(number, Len(number) - 1) # "]" THEN Raised(NotMessage)
             ELSE LET n == int(Slice(number, 1, -1))
                  IN  IF n.raised # "" THEN Raised(n.raised)
                      ELSE Returned([type |-> "Chat", who_number |-> n.value,
                                     who_name |-> Item(line, 1).text,
                                     content |-> Item(line, 2)])

\* DeadChat.from_line
DeadChatFromLine(line) ==
    IF NoIndex(line, 2) THEN Raised(NotMessage)
    ELSE IF Item(line, 2).style # "color:#689194" THEN Raised(NotMessage)
    ELSE LET number == get_text(Item(line, 0))
         IN  IF Item(line, 1).text = None THEN Raised("AttributeError")
             ELSE LET n == int(Slice(number, 1, -1))
                  IN  IF n.raised # "" THEN Raised(n.raised)
                      ELSE Returned([type |-> "DeadChat", who_number |-> n.value,
                                     who_name |-> replace(Item(line, 1).text, "-", " "),
                                     content |-> Item(line, 2)])

HexDigits == Digits \cup {"A", "B", "C", "D", "E", "F"}

\* PlayerInfo.parse_role for a tag that has text
parse_role(tag) ==
    LET style == tag.style
        colour == IF StartsWith(style, "color:#") /\ Len(style) = 13
                     /\ AllIn(SliceFrom(style, 7), HexDigits)
                  THEN SliceFrom(style, 7) ELSE "000000"
    IN  <<strip(tag.text), colour>>

\* the text that marks the VIP; the three non-ASCII characters that messages.py has
\* between the two blanks are written here as one asterisk
VipText == " * "

\* PlayerInfo.from_line
PlayerInfoFromLine(line) ==
    IF NoIndex(line, 0) THEN Raised(NotMessage)
    ELSE IF Item(line, 0).text \in {None, ""} THEN Raised(NotMessage)
    ELSE LET header == split(Item(line, 0).text, "] ")
         IN  IF Len(header) <= 1 THEN Raised(NotMessage)
             ELSE IF NoIndex(line, -2) THEN Raised(NotMessage)
             ELSE IF Item(line, 1).text = None THEN Raised("AttributeError")
             ELSE IF NoIndex(line, 2) THEN Raised(NotMessage)
             ELSE IF Item(line, 2).prev # <<>> /\ Item(line, 2).prev[1].text = None
                  THEN Raised("AttributeError")
             ELSE IF NoIndex(line, -3) THEN Raised(NotMessage)
             ELSE LET n == int(SliceFrom(header[1], 1))
                  IN  IF n.raised # "" THEN Raised(n.raised)
                      ELSE Returned(
                             [type |-> "PlayerInfo",
                              number |-> n.value,
                              game_name |-> Slice(header[2], 0, -3),
                              account_name |-> Slice(get_text(Item(line, -2)), 11, -1),
                              role |-> parse_role(Item(line, 1)),
                              prev_role |-> IF Item(line, 2).prev # <<>>
                                            THEN parse_role(Item(line, 2).prev[1])
                                            ELSE <<>>,
                              last_will |-> IF Item(line, -3).will # <<>>
                                            THEN <<Item(line, -3).will[1]>>
                                            ELSE <<>>,
                              is_vip |-> Item(line, 2).text = VipText])

\* a regex of the system messages, as the sequence of its parts: a literal text, a
\* group (.+), (\d+) or (\d), or an unescaped dot
Lit(s) == [part |-> "literal", text |-> s]
Grp(kind) == [part |-> kind, text |-> ""]
AnyGroup == Grp("group")
DigitsGroup == Grp("digits")
DigitGroup == Grp("digit")
Dot == Grp("dot")

\* the subclasses of SystemMessage, in the order the module declares them
SystemMessages == <<
    [cls |-> "Whispering", regex |-> <<AnyGroup, Lit(" is whispering to "), AnyGroup, Lit(".")>>],
    [cls |-> "LeftAWill", regex |-> <<AnyGroup, Lit(" left a last will"), Dot>>],
    [cls |-> "Upped", regex |-> <<AnyGroup, Lit(" was voted up to trial.")>>],
    [cls |-> "DayStart", regex |-> <<Lit("Day "), DigitsGroup>>],
    [cls |-> "NightStart", regex |-> <<Lit("Night "), DigitsGroup>>],
    [cls |-> "DayDeath", regex |-> <<AnyGroup, Lit(" died today.")>>],
    [cls |-> "NightDeath", regex |-> <<AnyGroup, Lit(" died last night.")>>],
    [cls |-> "Tribunal", regex |-> <<AnyGroup, Lit(" the Marshal, has declared a Tribunal.")>>],
    [cls |-> "FoundGuilty", regex |-> <<AnyGroup, Lit(" was found guilty!")>>],
    [cls |-> "TrialsRemaining",
     regex |-> <<Lit("There are "), DigitGroup, Lit(" possible trials remaining today.")>>],
    [cls |-> "Disconnect", regex |-> <<AnyGroup, Lit(" has disconnected from life.")>>],
    [cls |-> "Reconnect", regex |-> <<AnyGroup, Lit(" has reconnected to life.")>>],
    [cls |-> "LeftTown",
     regex |-> <<AnyGroup, Lit(" has accomplished their goal as "), AnyGroup,
                 Lit(" and left town.")>>],
    [cls |-> "DeathPop",
     regex |-> <<Lit("Now Soul Collector has become Death, Destroyer of Worlds and Horseman of the Apocalypse!")>>],
    [cls |-> "HuntWarning",
     regex |-> <<Lit("There are "), DigitGroup, Lit(" days left to find the Town Traitor.")>>],
    [cls |-> "DrawWarning",
     regex |-> <<Lit("If no one dies by tomorrow the game will end in a draw"), Dot>>],
    [cls |-> "StartJunk", regex |-> <<Lit("PLAYER INFO")>> ] >>

LAST_N == 7

\* last_n(pattern): the literal text of the last LAST_N items of the parsed pattern, None
\* when one of them is not a literal
RECURSIVE last_n_from(_, _)
last_n_from(regex, need) ==
    IF need = 0 \/ regex = <<>> THEN ""
    ELSE LET last == regex[Len(regex)]
         IN  IF last.part # "literal" THEN None
             ELSE IF Len(last.text) >= need THEN SliceFrom(last.text, Len(last.text) - need)
             ELSE LET before == last_n_from(SubSeq(regex, 1, Len(regex) - 1),
                                            need - Len(last.text))
                  IN  IF before = None THEN None ELSE before \o last.text

last_n(regex) == last_n_from(regex, LAST_N)

\* SystemMessage.leaves[key]: the subclasses filed under the key, in declared order
leaves(key) == SelectSeq(SystemMessages, LAMBDA c : last_n(c.regex) = key)

\* the keys SystemMessage.leaves holds
LeafKeys == { last_n(SystemMessages[i].regex) : i \in DOMAIN SystemMessages }

\* regex.fullmatch(s): <<>> for no match, else <<groups>>; a group (.+) takes the longest
\* text that lets the rest match
RECURSIVE fullmatch(_, _)
fullmatch(regex, s) ==
    IF regex = <<>> THEN (IF Len(s) = 0 THEN << <<>> >> ELSE <<>>)
    ELSE LET head == regex[1]
             rest == Tail(regex)
             Taking(k) == fullmatch(rest, SliceFrom(s, k))
             Fits(k) ==
                 /\ k <= Len(s)
                 /\ CASE head.part = "literal" -> Slice(s, 0, k) = head.text
                      [] head.part \in {"dot", "group"} ->
                            \A i \in 0..(k - 1) : At(s, i) # "\n"
                      [] OTHER -> AllIn(Slice(s, 0, k), Digits)
                 /\ Taking(k) # <<>>
             widths == CASE head.part = "literal" -> {Len(head.text)}
                         [] head.part \in {"dot", "digit"} -> {1}
                         [] OTHER -> 1..Len(s)
             fit == { k \in widths : Fits(k) }
         IN  IF fit = {} THEN <<>>
             ELSE LET k == CHOOSE k \in fit : \A j \in fit : j <= k
                  IN  IF head.part \in {"literal", "dot"}
                      THEN Taking(k)
                      ELSE << <<Slice(s, 0, k)>> \o Taking(k)[1] >>

\* SystemMessage.from_match: cls(*[int(x) if x.isdigit() else x for x in m.groups()])
RECURSIVE from_match_args(_)
from_match_args(groups) ==
    IF groups = <<>> THEN Returned(<<>>)
    ELSE LET x == groups[1]
             later == from_match_args(Tail(groups))
         IN  IF isdigit(x)
             THEN (IF int(x).raised # "" THEN Raised(int(x).raised)
                   ELSE IF later.raised # "" THEN later
                   ELSE Returned(<<[int |-> int(x).value]>> \o later.value))
             ELSE (IF later.raised # "" THEN later
                   ELSE Returned(<<[str |-> x]>> \o later.value))

from_match(cls, groups) ==
    LET args == from_match_args(groups)
    IN  IF args.raised # "" THEN args
        ELSE Returned([type |-> cls, args |-> args.value])

\* the loop of SystemMessage.from_line over the candidates
RECURSIVE FirstMatch(_, _)
FirstMatch(candidates, first_text) ==
    IF candidates = <<>> THEN Raised(NotMessage)
    ELSE LET m == fullmatch(candidates[1].regex, first_text)
         IN  IF m # <<>> THEN from_match(candidates[1].cls, m[1])
             ELSE FirstMatch(Tail(candidates), first_text)

\* SystemMessage.from_line
SystemMessageFromLine(line) ==
    IF NoIndex(line, 0) THEN Raised(NotMessage)
    ELSE LET first_text == get_text(Item(line, 0))
             last == Slice(first_text, -LAST_N, Len(first_text))
         IN  FirstMatch(IF last \in LeafKeys \ {None} THEN leaves(last) ELSE leaves(None),
                        first_text)

\* Message.from_line
MessageFromLine(line) ==
    LET chat == ChatFromLine(line)
        system == SystemMessageFromLine(line)
        dead == DeadChatFromLine(line)
        info == PlayerInfoFromLine(line)
    IN  IF chat.raised # NotMessage THEN chat
        ELSE IF system.raised # NotMessage THEN system
        ELSE IF dead.raised # NotMessage THEN dead
        ELSE IF info.raised # NotMessage THEN info
        ELSE Raised(NotMessage)

-----------------------------------------------------------------------------
(* parse.py: to_messages over the lines of a text *)

\* one turn of the loop of to_messages: the next line is classified; its message is
\* yielded, a NotMessage is passed over, any other exception leaves the generator
ToMessagesStep ==
    /\ pc = "run"
    /\ at <= Len(lines)
    /\ \E r \in {MessageFromLine(lines[at])} :
          IF r.raised = ""
          THEN out' = Append(out, r.value) /\ at' = at + 1 /\ pc' = pc /\ err' = err
          ELSE IF r.raised = NotMessage
          THEN out' = out /\ at' = at + 1 /\ pc' = pc /\ err' = err
          ELSE out' = out /\ at' = at /\ pc' = "failed" /\ err' = <<r.raised, "from_line">>
    /\ UNCHANGED <<lines, analyzer, zipped, count, victor, branch, first, db, pair, splitter, operands>>

\* the loop of to_messages ends after the last line
ToMessagesEnd ==
    /\ pc = "run"
    /\ at > Len(lines)
    /\ pc' = "exhausted"
    /\ UNCHANGED <<lines, at, out, err, analyzer, zipped, count, victor, branch, first, db, pair, splitter, operands>>

\* the number of lines of the checked texts
MaxLines == 2

DeadStyle == "color:#689194"

\* the lines of the checked texts
ChatLines ==
    { <<Span("[1]", None), Span("p1", None), Span("hi", None)>>,
      <<Span("[12]", None), Span(None, None), Span(None, "")>>,
      <<Span("[ab]", None), Span("p1", None), Span("hi", None)>>,
      <<Span("]", None), Span("p1", None), Span("hi", None)>>,
      <<Span(None, None), Span("p1", None), Span("hi", None)>>,
      <<Span("hello", None), Span("p1", None), Span("hi", None)>> }

DeadChatLines ==
    { <<Span("[2]", None), Span("p-2", None), Span("boo", DeadStyle)>>,
      <<Cell(None, "[3]", None, <<>>, <<>>), Span("p3", None), Span("boo", DeadStyle)>>,
      <<Span("[x]", None), Span("p2", None), Span("boo", DeadStyle)>>,
      <<Span("[2]", None), Span(None, None), Span("boo", DeadStyle)>>,
      <<Span("[2]", None), Span("p2", None), Span("boo", "color:#FF0000")>> }

SystemLines ==
    { <<Span("p1 died last night.", None)>>,
      <<Span("Day 2", None)>>,
      <<Span("12 died today.", None)>>,
      <<Span("² died last night.", None)>>,
      <<Span("There are 3 days left to find the Town Traitor.", None)>>,
      <<Span("p1 has accomplished their goal as Jester and left town.", None)>>,
      <<Span("p1 left a last will!", None)>>,
      <<Span("Day x", None)>>,
      <<>> }

InfoLine(header, role, marker) ==
    <<Span(header, None), role, marker, Cell(None, "", None, <<>>, <<"will">>),
      Span("(Username: acc)", None), Span(None, None)>>

PlayerInfoLines ==
    { InfoLine("[1] p1 - ", Span(" Sheriff ", "color:#06E00C"), Span(None, None)),
      InfoLine("[2] p2 - ", Span("Jester", None),
               Cell(VipText, "", None, <<Tag("Sheriff", "color:#06E00C")>>, <<>>)),
      InfoLine("[x] p1 - ", Span("Sheriff", "color:#06E00C"), Span(None, None)),
      InfoLine("[1] p1 - ", Span(None, "color:#06E00C"), Span(None, None)),
      InfoLine("[1] p1 - ", Span("Sheriff", "color:#06E00C"),
               Cell(None, "", None, <<Tag(None, None)>>, <<>>)),
      <<Span("[1] p1 - ", None), Span("Sheriff", None)>> }

LineMenu == ChatLines \cup DeadChatLines \cup SystemLines \cup PlayerInfoLines

Texts == UNION { [1..n -> LineMenu] : n \in 0..MaxLines }

\* list(to_messages(text)) for a text of the menu
InitLines ==
    /\ Fresh
    /\ zipped = FALSE
    /\ lines \in Texts
    /\ at = 1
    /\ out = <<>>
    /\ first = <<>>
    /\ db = <<>>
    /\ pair = <<>> /\ body = <<>> /\ child = 1 /\ cur_line = <<>> /\ operands = <<>>

NextLines ==
    \/ ToMessagesStep
    \/ ToMessagesEnd

SpecLines == InitLines /\ [][NextLines]_vars

-----------------------------------------------------------------------------
(* parse.py: parse(text, analyzer) over the lines of a text, and a second parse() of the
   same lines with a fresh analyzer *)

\* a name that a system message gives as an int (from_match) is no key of the roster,
\* whose keys are str
IntName == "<int>"

\* the `who` of a system message
Who(arg) == IF "str" \in DOMAIN arg THEN arg.str ELSE IntName

\* analyzer.get_message(message): the case of the match statement that takes the message
Dispatch(message) ==
    CASE message.type = "PlayerInfo" -> GetPlayerInfo(message)
      [] message.type = "LeftAWill" -> GetLeftAWill(Who(message.args[1]))
      [] message.type = "Upped" -> GetUpped(Who(message.args[1]))
      [] message.type = "NightDeath" -> GetNightDeath(Who(message.args[1]))
      [] message.type = "DayDeath" -> GetDayDeath(Who(message.args[1]))
      [] message.type = "FoundGuilty" -> GetFoundGuilty(Who(message.args[1]))
      [] message.type = "DayStart" ->
            IF message.args[1].int = 1 THEN GetDayStart1 ELSE GetDayStart(message.args[1].int)
      [] message.type = "NightStart" -> GetNightStart(message.args[1].int)
      [] message.type = "LeftTown" -> GetLeftTown(Who(message.args[1]))
      [] message.type = "HuntWarning" -> GetHuntWarning(message.args[1].int)
      [] message.type = "Tribunal" -> GetTribunal
      [] message.type = "Disconnect" -> GetDisconnect(Who(message.args[1]))
      [] message.type = "Reconnect" -> GetReconnect(Who(message.args[1]))
      [] message.type = "TrialsRemaining" -> GetTrialsRemaining
      [] message.type = "DeathPop" -> GetDeathPop
      [] message.type = "DrawWarning" -> GetDrawWarning
      [] OTHER -> GetOther

\* one turn of the loop of parse(): the next line is classified and its message handed to
\* the analyzer; a line that is no message is passed over
ParseStep ==
    /\ pc = "run"
    /\ at <= Len(lines)
    /\ \E r \in {MessageFromLine(lines[at])} :
          IF r.raised = "" THEN Dispatch(r.value)
          ELSE IF r.raised = NotMessage
          THEN /\ at' = at + 1
               /\ UNCHANGED <<analyzer, zipped, count, pc, err, victor, branch, lines, out,
                              first, db, pair, splitter, operands>>
          ELSE /\ Raise(<<r.raised, "from_line">>)
               /\ UNCHANGED <<analyzer, victor, branch>>

\* parse() after the last line: analyzer.result()
ParseResult ==
    /\ at > Len(lines)
    /\ Result

\* what a parse() ended with
Ended ==
    [objs |-> objs, players |-> players, townie_colours |-> townie_colours,
     coven_colour |-> coven_colour, dced |-> dced, hunt_reached |-> hunt_reached,
     in_trib |-> in_trib, trial_period |-> trial_period, time |-> time,
     modifiers |-> modifiers, death_popped |-> death_popped,
     draw_tomorrow |-> draw_tomorrow, vip |-> vip, pc |-> pc, err |-> err,
     victor |-> victor, branch |-> branch, zipped |-> zipped, count |-> count]

\* a list that a new analyzer would share with the one before it
SharedList(old) == old

\* `self.modifiers = []` in __init__: a new list, whatever an earlier analyzer holds
NewList(old) == <<>>

\* ResultAnalyzer() and MessageCountAnalyzer(): the fields that __init__ sets, and parse()
\* at its first line
NewAnalyzers ==
    /\ objs' = <<>>
    /\ players' = <<>>
    /\ townie_colours' = <<>>
    /\ coven_colour' = <<>>
    /\ dced' = {}
    /\ hunt_reached' = <<>>
    /\ in_trib' = FALSE
    /\ trial_period' = FALSE
    /\ time' = <<1, "day">>
    /\ modifiers' = NewList(modifiers)
    /\ death_popped' = FALSE
    /\ draw_tomorrow' = FALSE
    /\ vip' = <<>>
    /\ count' = 0
    /\ pc' = "run"
    /\ err' = <<>>
    /\ victor' = unknown
    /\ branch' = "none"
    /\ at' = 1

\* the first parse() is over: the same lines are parsed again, with a new ResultAnalyzer,
\* alone or zipped with a new MessageCountAnalyzer
ParseAgain ==
    /\ pc # "run"
    /\ first = <<>>
    /\ first' = <<Ended>>
    /\ NewAnalyzers
    /\ zipped' \in BOOLEAN
    /\ UNCHANGED <<lines, out, db, pair, splitter, operands>>

TownStyle == "color:#06E00C"
CovenStyle == "color:#B545FF"

\* the player list of the checked logs, and one that is too short for a gamelog
PlayerList ==
    << InfoLine("[1] p1 - ", Span(" Sheriff ", TownStyle), Span(VipText, None)),
       InfoLine("[2] p2 - ", Span(" Jester ", None), Span(None, None)),
       InfoLine("[3] p3 - ", Span(" Coven Leader ", CovenStyle), Span(None, None)),
       InfoLine("[4] p4 - ", Span(" Jailor ", CovenStyle), Span(None, None)),
       InfoLine("[5] p5 - ", Span(" Witch ", CovenStyle), Span(None, None)) >>

ShortList == SubSeq(PlayerList, 1, 4)

\* the lines that follow the player list in the checked logs
EventLines ==
    { <<Span("Day 1", None)>>,
      <<Span("Day 2", None)>>,
      <<Span("p1 died last night.", None)>>,
      <<Span("p2 was found guilty!", None)>>,
      <<Span("p5 has disconnected from life.", None)>>,
      <<Span("zz has disconnected from life.", None)>>,
      <<Span("There are 3 days left to find the Town Traitor.", None)>>,
      <<Span("[1]", None), Span("p1", None), Span("hi", None)>>,
      <<Span("hello", None)>>,
      InfoLine("[2] p2 - ", Span(" Banshee ", None), Span(None, None)) }

\* the number of lines after the player list
MaxEvents == 2

Logs ==
    { list \o events :
        list \in {PlayerList, ShortList},
        events \in UNION { [1..n -> EventLines] : n \in 0..MaxEvents } }

InitTwice ==
    /\ Fresh
    /\ zipped \in BOOLEAN
    /\ lines \in Logs
    /\ at = 1
    /\ out = <<>>
    /\ first = <<>>
    /\ db = <<>>
    /\ pair = <<>> /\ body = <<>> /\ child = 1 /\ cur_line = <<>> /\ operands = <<>>

NextTwice ==
    \/ ParseStep
    \/ ParseResult
    \/ ParseAgain

SpecTwice == InitTwice /\ [][NextTwice]_vars

-----------------------------------------------------------------------------
(* lookout/logs.py: the fingerprint of a game *)

\* ",".join(parts)
RECURSIVE join(_, _)
join(sep, parts) ==
    IF parts = <<>> THEN ""
    ELSE IF Len(parts) = 1 THEN parts[1]
    ELSE parts[1] \o sep \o join(sep, Tail(parts))

\* gist_of(game), for game.players = ps
gist_of(ps) ==
    join(",", [i \in DOMAIN ps |->
                  ps[i].game_name \o "/" \o ps[i].account_name \o "/"
                      \o ps[i].ending_ident.role])

\* the players of the checked games
GistPlayers ==
    { Player(1, "ann", "acc1", Identity(by_name["Sheriff"], unknown),
             Identity(by_name["Sheriff"], unknown), TRUE),
      Player(2, "bob", "acc2", Identity(by_name["Jester"], unknown),
             Identity(by_name["Jester"], unknown), TRUE),
      Player(3, "cat", "acc3", Identity(by_name["Witch"], unknown),
             Identity(by_name["Witch"], unknown), TRUE),
      Player(4, "ann", "acc4", Identity(by_name["Witch"], unknown),
             Identity(by_name["Witch"], unknown), TRUE),
      Player(5, "dan", "acc1", Identity(by_name["Sheriff"], unknown),
             Identity(by_name["Jailor"], unknown), FALSE) }

\* the number of players of a checked game
MaxGistPlayers == 3

\* game.players of the checked games: distinct players in any order
GistTuples ==
    UNION { { t \in [1..n -> GistPlayers] : \A i, j \in 1..n : t[i] = t[j] => i = j } :
            n \in 0..MaxGistPlayers }

\* a game is at hand, its players in the order of the tuple
InitGist ==
    /\ objs \in GistTuples
    /\ players = [i \in DOMAIN objs |-> i]
    /\ townie_colours = <<>>
    /\ coven_colour = <<>>
    /\ dced = {}
    /\ hunt_reached = <<>>
    /\ in_trib = FALSE
    /\ trial_period = FALSE
    /\ time = <<1, "day">>
    /\ modifiers = <<>>
    /\ death_popped = FALSE
    /\ draw_tomorrow = FALSE
    /\ vip = <<>>
    /\ count = 0
    /\ pc = "game"
    /\ err = <<>>
    /\ victor = unknown
    /\ branch = "none"
    /\ zipped = FALSE
    /\ lines = <<>>
    /\ at = 1
    /\ out = <<>>
    /\ first = <<>>
    /\ db = <<>>
    /\ pair = <<>> /\ body = <<>> /\ child = 1 /\ cur_line = <<>> /\ operands = <<>>

\* gist = gist_of(game)
Gist ==
    /\ pc = "game"
    /\ out' = <<gist_of(Values(objs, players))>>
    /\ pc' = "gist"
    /\ UNCHANGED <<analyzer, zipped, count, err, victor, branch, lines, at, first, db, pair, splitter, operands>>

\* the game is looked up again under its fingerprint
GistAgain ==
    /\ pc = "gist"
    /\ out' = Append(out, gist_of(Values(objs, players)))
    /\ pc' = "found"
    /\ UNCHANGED <<analyzer, zipped, count, err, victor, branch, lines, at, first, db, pair, splitter, operands>>

NextGist ==
    \/ Gist
    \/ GistAgain

SpecGist == InitGist /\ [][NextGist]_vars

\* ---------------------------------------------------------------------------------------
\* lookout/stats.py: Stats.games and Stats.update_game over one row of Games
\* ---------------------------------------------------------------------------------------

\* gamelogs/__init__.py: the version of the analysis format
version == 1

\* errors.py: BadLogError and its subclasses
BadLogError == {"BadLogError", "InvalidHTMLError", "UnsupportedRoleError", "NotLogError"}

\* a gate that also takes a row of the current version
StaleOrCurrent(v) == v <= version

\* `if version < gamelogs.version`
Stale(v) == v < version

\* the reads of the row by Stats.games
MaxReads == 3

\* the stored logs: a game, a text with four players, a game with a role that by_name
\* does not hold, and a game where someone who is not on the player list disconnects
StoredLogs ==
    { PlayerList,
      ShortList,
      PlayerList \o << InfoLine("[2] p2 - ", Span(" Banshee ", None), Span(None, None)) >>,
      PlayerList \o << <<Span("zz has disconnected from life.", None)>>,
                       <<Span("Day 2", None)>> >> }

\* the gist the row was stored under
StoredGist == "p1/p1/Sheriff,p2/p2/Jester,p3/p3/Coven Leader,p4/p4/Jailor,p5/p5/Witch"

\* the columns of the row, and the update_game tasks: `tasks` were created and have not
\* reached parse(), `task` is "running" while one is in parse(), `last` is how the last one
\* ended
Rows ==
    [gist : {StoredGist}, from_log : StoredLogs, analysis : {<<>>}, message_count : {0},
     analysis_version : 0..version, reads : {0}, tasks : {0}, task : {"none"},
     last : {"none"}]

\* the columns of Games
Columns(row) ==
    [gist |-> row.gist, from_log |-> row.from_log, analysis |-> row.analysis,
     message_count |-> row.message_count, analysis_version |-> row.analysis_version]

InitStats ==
    /\ Fresh
    /\ zipped = TRUE
    /\ lines = <<>>
    /\ at = 1
    /\ out = <<>>
    /\ first = <<>>
    /\ db \in Rows
    /\ pair = <<>> /\ body = <<>> /\ child = 1 /\ cur_line = <<>> /\ operands = <<>>

\* Stats.games reaches the row: a task for update_game when the row is stale, then the
\* stored game is yielded
Games ==
    /\ db.task = "none"
    /\ db.reads < MaxReads
    /\ db' = [db EXCEPT !.reads = @ + 1,
                        !.tasks = IF Stale(db.analysis_version) THEN @ + 1 ELSE @]
    /\ UNCHANGED <<analyzer, zipped, count, pc, err, victor, branch, lines, at, out, first, pair, splitter, operands>>

\* update_game: the content of from_log is read and parse() is called on it
UpdateGameParse ==
    /\ db.task = "none"
    /\ db.tasks > 0
    /\ db' = [db EXCEPT !.tasks = @ - 1, !.task = "running"]
    /\ lines' = db.from_log
    /\ NewAnalyzers
    /\ zipped' = TRUE
    /\ UNCHANGED <<out, first, pair, splitter, operands>>

\* update_game after parse(): a BadLogError is logged, any other exception ends the task,
\* and a returned game is stored under its gist with the current version
UpdateGameEnd ==
    /\ db.task = "running"
    /\ pc # "run"
    /\ db' = IF pc = "returned"
             THEN IF gist_of(Values(objs, players)) = db.gist
                  THEN [db EXCEPT !.analysis = <<victor>>, !.message_count = count,
                                  !.analysis_version = version, !.task = "none",
                                  !.last = "updated"]
                  ELSE [db EXCEPT !.task = "none", !.last = "AssertionError"]
             ELSE [db EXCEPT !.task = "none",
                             !.last = IF err[1] \in BadLogError THEN "logged" ELSE err[1]]
    /\ UNCHANGED <<analyzer, zipped, count, pc, err, victor, branch, lines, at, out, first, pair, splitter, operands>>

NextStats ==
    \/ Games
    \/ UpdateGameParse
    \/ db.task = "running" /\ ParseStep
    \/ db.task = "running" /\ ParseResult
    \/ UpdateGameEnd

SpecStats == InitStats /\ [][NextStats]_vars

\* ---------------------------------------------------------------------------------------
\* analyzer.py: ZipAnalyzer over two MessageCountAnalyzers, parse() with x & y, then with
\* x alone, then with y alone
\* ---------------------------------------------------------------------------------------

\* MessageCountAnalyzer.__init__
MessageCountInit == 0

\* MessageCountAnalyzer.get_message
MessageCountGetMessage(n) == n + 1

\* MessageCountAnalyzer.result
MessageCountResult(n) == n

\* a combinator that forwards to x only
ZipGetMessageFirst(p, i) ==
    [p EXCEPT !.x = MessageCountGetMessage(@), !.log = Append(@, <<"x", i>>)]

\* ZipAnalyzer.get_message for the message of line i: self.x.get_message, then
\* self.y.get_message
ZipGetMessage(p, i) ==
    [p EXCEPT !.x = MessageCountGetMessage(@),
              !.y = MessageCountGetMessage(@),
              !.log = @ \o << <<"x", i>>, <<"y", i>> >>]

\* ZipAnalyzer.result
ZipResult(p) == <<MessageCountResult(p.x), MessageCountResult(p.y)>>

\* the lines of the checked texts: two kinds of chat, two system messages, a player of
\* the list, two lines that are no message, and one whose classification raises ValueError
ZipLines ==
    { <<Span("[1]", None), Span("p1", None), Span("hi", None)>>,
      <<Span("[ab]", None), Span("p1", None), Span("hi", None)>>,
      <<Span("[2]", None), Span("p-2", None), Span("boo", DeadStyle)>>,
      <<Span("Day 2", None)>>,
      <<Span("p1 died last night.", None)>>,
      InfoLine("[1] p1 - ", Span(" Sheriff ", TownStyle), Span(None, None)),
      <<Span("hello", None)>>,
      <<>> }

MaxZipLines == 3

ZipTexts == UNION { [1..n -> ZipLines] : n \in 0..MaxZipLines }

\* `with` is the analyzer parse() was called with; x and y are the counts of the two
\* analyzers, log the calls of get_message made by the combinator, results what the calls
\* of parse() returned
InitZip ==
    /\ Fresh
    /\ zipped = FALSE
    /\ lines \in ZipTexts
    /\ at = 1
    /\ out = <<>>
    /\ first = <<>>
    /\ db = <<>>
    /\ pair = [with |-> "x & y", x |-> MessageCountInit, y |-> MessageCountInit,
               log |-> <<>>, results |-> <<>>]
    /\ body = <<>> /\ child = 1 /\ cur_line = <<>> /\ operands = <<>>

\* one turn of the loop of parse(): the line is classified and the message handed to the
\* analyzer
ParsePairStep ==
    /\ pc = "run"
    /\ at <= Len(lines)
    /\ \E r \in {MessageFromLine(lines[at])} :
          IF r.raised = ""
          THEN /\ pair' = CASE pair.with = "x & y" -> ZipGetMessage(pair, at)
                            [] pair.with = "x" -> [pair EXCEPT !.x = MessageCountGetMessage(@)]
                            [] pair.with = "y" -> [pair EXCEPT !.y = MessageCountGetMessage(@)]
               /\ at' = at + 1
               /\ UNCHANGED <<pc, err>>
          ELSE IF r.raised = NotMessage
          THEN /\ at' = at + 1
               /\ UNCHANGED <<pair, pc, err>>
          ELSE /\ pc' = "failed"
               /\ err' = <<r.raised, "from_line">>
               /\ UNCHANGED <<pair, at>>
    /\ UNCHANGED <<analyzer, zipped, count, victor, branch, lines, out, first, db, splitter, operands>>

\* parse() after the last line: analyzer.result() is returned; the same text is then
\* parsed with a new x alone, and then with a new y alone
ParsePairResult ==
    /\ pc = "run"
    /\ at > Len(lines)
    /\ CASE pair.with = "x & y" ->
              /\ pair' = [pair EXCEPT !.results = Append(@, ZipResult(pair)),
                                      !.with = "x", !.x = MessageCountInit]
              /\ at' = 1
              /\ pc' = pc
         [] pair.with = "x" ->
              /\ pair' = [pair EXCEPT !.results = Append(@, MessageCountResult(pair.x)),
                                      !.with = "y", !.y = MessageCountInit]
              /\ at' = 1
              /\ pc' = pc
         [] pair.with = "y" ->
              /\ pair' = [pair EXCEPT !.results = Append(@, MessageCountResult(pair.y))]
              /\ at' = at
              /\ pc' = "returned"
    /\ UNCHANGED <<analyzer, zipped, count, err, victor, branch, lines, out, first, db, splitter, operands>>

NextZip ==
    \/ ParsePairStep
    \/ ParsePairResult

SpecZip == InitZip /\ [][NextZip]_vars

\* ---------------------------------------------------------------------------------------
\* analyzer.py: logs in which a death is first inferred (a will, a vote during a Tribunal,
\* a disconnection that lasts until the next day) and reported by a death message later
\* ---------------------------------------------------------------------------------------

DeathInfos ==
    { Info(1, "p1", <<"Sheriff", TownColour>>, <<>>, FALSE),
      Info(2, "p2", <<"Jester", "000000">>, <<>>, FALSE) }

\* the last day of these logs
MaxDeathDay == 3

\* player.died for a key of the roster
Died(o, ps, who) == o[Ref(o, ps, who)].died

NextDeaths ==
    \/ \E m \in DeathInfos :
          m.game_name \notin Keys(objs, players) /\ Listed(m) /\ GetPlayerInfo(m)
    \/ \E who \in Keys(objs, players) : GetLeftAWill(who)
    \/ GetTribunal
    \/ \E who \in Keys(objs, players) : GetUpped(who)
    \/ \E who \in Keys(objs, players) : GetDisconnect(who)
    \/ \E who \in Keys(objs, players) : GetReconnect(who)
    \/ time[2] = "day" /\ GetNightStart(time[1])
    \/ time[2] = "night" /\ time[1] < MaxDeathDay /\ GetDayStart(time[1] + 1)
    \/ \E who \in Keys(objs, players) :
          Died(objs, players, who) # <<>> /\ GetNightDeath(who)
    \/ \E who \in Keys(objs, players) :
          Died(objs, players, who) # <<>> /\ GetDayDeath(who)
    \/ \E who \in Keys(objs, players) :
          Died(objs, players, who) # <<>> /\ GetFoundGuilty(who)

SpecDeaths == Init /\ [][NextDeaths]_vars

\* ---------------------------------------------------------------------------------------
\* analyzer.py: logs of five Town players and a Vampire
\* ---------------------------------------------------------------------------------------

VampireInfos ==
    { Info(1, "p1", <<"Sheriff", TownColour>>, <<>>, FALSE),
      Info(2, "p2", <<"Jailor", TownColour>>, <<>>, FALSE),
      Info(3, "p3", <<"Seer", TownColour>>, <<>>, FALSE),
      Info(4, "p4", <<"Mayor", TownColour>>, <<>>, FALSE),
      Info(5, "p5", <<"Vampire", "000000">>, <<>>, FALSE),
      Info(5, "p5", <<"Vampire", "000000">>, <<"Spy", TownColour>>, FALSE),
      Info(6, "p6", <<"Deputy", TownColour>>, <<>>, FALSE) }

NextVampire ==
    \/ \E m \in VampireInfos :
          m.game_name \notin Keys(objs, players) /\ Listed(m) /\ GetPlayerInfo(m)
    \/ \E who \in Keys(objs, players) : GetNightDeath(who)
    \/ Result

SpecVampire == Init /\ [][NextVampire]_vars

\* ---------------------------------------------------------------------------------------
\* analyzer.py: logs with votes and Tribunals called by day, every day followed by its night
\* ---------------------------------------------------------------------------------------

TribInfos == DeathInfos \cup { Info(3, "p3", <<"Marshal", TownColour>>, <<>>, FALSE) }

NextTrib ==
    \/ \E m \in TribInfos :
          m.game_name \notin Keys(objs, players) /\ Listed(m) /\ GetPlayerInfo(m)
    \/ time[2] = "day" /\ GetTribunal
    \/ \E who \in Keys(objs, players) : GetUpped(who)
    \/ time[2] = "day" /\ GetNightStart(time[1])
    \/ time[2] = "night" /\ time[1] < MaxDeathDay /\ GetDayStart(time[1] + 1)

SpecTrib == Init /\ [][NextTrib]_vars

\* ---------------------------------------------------------------------------------------
\* analyzer.py: logs in which players disconnect and reconnect and no death is reported
\* ---------------------------------------------------------------------------------------

NextDisc ==
    \/ \E m \in TribInfos :
          m.game_name \notin Keys(objs, players) /\ Listed(m) /\ GetPlayerInfo(m)
    \/ \E who \in Whos : GetDisconnect(who)
    \/ \E who \in Keys(objs, players) : GetReconnect(who)
    \/ \E n \in 2..MaxDeathDay : GetDayStart(n)
    \/ GetTrialsRemaining

SpecDisc == Init /\ [][NextDisc]_vars

\* ---------------------------------------------------------------------------------------
\* analyzer.py: logs with deaths by night and by day, wills and verdicts, every day
\* followed by its night
\* ---------------------------------------------------------------------------------------

NextKill ==
    \/ \E m \in TribInfos :
          m.game_name \notin Keys(objs, players) /\ Listed(m) /\ GetPlayerInfo(m)
    \/ \E who \in Keys(objs, players) : GetNightDeath(who)
    \/ \E who \in Keys(objs, players) : GetDayDeath(who)
    \/ \E who \in Keys(objs, players) : GetFoundGuilty(who)
    \/ \E who \in Keys(objs, players) : GetLeftAWill(who)
    \/ time[2] = "day" /\ GetNightStart(time[1])
    \/ time[2] = "night" /\ time[1] < MaxDeathDay /\ GetDayStart(time[1] + 1)

SpecKill == Init /\ [][NextKill]_vars

\* ---------------------------------------------------------------------------------------
\* analyzer.py: player lists in which Town roles are shown in the Coven's colour, names are
\* listed again in another colour, and DayStart(1) follows
\* ---------------------------------------------------------------------------------------

JudgeInfos ==
    { Info(1, "p1", <<"Sheriff", TownColour>>, <<>>, FALSE),
      Info(1, "p1", <<"Sheriff", CovenColour>>, <<>>, FALSE),
      Info(2, "p2", <<"Jailor", CovenColour>>, <<>>, FALSE),
      Info(2, "p2", <<"Deputy", TownColour>>, <<"Jester", "000000">>, FALSE),
      Info(2, "p2", <<"Jester", "000000">>, <<>>, FALSE),
      Info(3, "p3", <<"Coven Leader", CovenColour>>, <<>>, FALSE),
      Info(3, "p3", <<"Witch", "000000">>, <<>>, FALSE) }

\* the Player objects these logs create at most, and the tags DayStart(1) finds at most
MaxObjs == 4
MaxTags == 2

NextJudge ==
    \/ \E m \in JudgeInfos : NewRef(m.game_name) <= MaxObjs /\ GetPlayerInfo(m)
    \/ Len(modifiers) <= MaxTags /\ GetDayStart1

SpecJudge == Init /\ [][NextJudge]_vars

\* ---------------------------------------------------------------------------------------
\* analyzer.py: player lists with roles that changed during the game
\* ---------------------------------------------------------------------------------------

FactionInfos ==
    { Info(1, "p1", <<"Sheriff", TownColour>>, <<>>, FALSE),
      Info(1, "p1", <<"Sheriff", TownColour>>, <<"Coven Leader", CovenColour>>, FALSE),
      Info(2, "p2", <<"Vampire", "000000">>, <<>>, FALSE),
      Info(2, "p2", <<"Vampire", "000000">>, <<"Spy", TownColour>>, FALSE),
      Info(2, "p2", <<"Vampire", "000000">>, <<"Jester", "000000">>, FALSE),
      Info(3, "p3", <<"Witch", CovenColour>>, <<"Deputy", TownColour>>, FALSE),
      Info(3, "p3", <<"Jester", "000000">>, <<"Executioner", "000000">>, FALSE),
      Info(4, "p4", <<"Cursed Soul", "000000">>, <<"Vampire", "000000">>, FALSE),
      Info(4, "p4", <<"Coven Leader", CovenColour>>, <<>>, FALSE) }

NextFaction ==
    \E m \in FactionInfos : m.game_name \notin Keys(objs, players) /\ GetPlayerInfo(m)

SpecFaction == Init /\ [][NextFaction]_vars

\* ---------------------------------------------------------------------------------------
\* analyzer.py: logs in which players leave town, Cursed Souls among them
\* ---------------------------------------------------------------------------------------

LeftInfos ==
    { Info(1, "p1", <<"Cursed Soul", "000000">>, <<>>, FALSE),
      Info(1, "p1", <<"Sheriff", TownColour>>, <<>>, FALSE),
      Info(2, "p2", <<"Pirate", "000000">>, <<"Cursed Soul", "000000">>, FALSE),
      Info(2, "p2", <<"Cursed Soul", "000000">>, <<"Pirate", "000000">>, FALSE),
      Info(3, "p3", <<"Jester", "000000">>, <<>>, FALSE),
      Info(4, "p4", <<"Cursed Soul", "000000">>, <<>>, FALSE) }

NextLeft ==
    \/ \E m \in LeftInfos :
          m.game_name \notin Keys(objs, players) /\ Listed(m) /\ GetPlayerInfo(m)
    \/ \E who \in Keys(objs, players) : GetLeftTown(who)
    \/ \E who \in Keys(objs, players) : GetNightDeath(who)

SpecLeft == Init /\ [][NextLeft]_vars

\* ---------------------------------------------------------------------------------------
\* analyzer.py: logs with draw warnings among deaths, votes under a Tribunal and
\* disconnections, each day followed by its night
\* ---------------------------------------------------------------------------------------

NextDraw ==
    \/ \E m \in DeathInfos :
          m.game_name \notin Keys(objs, players) /\ Listed(m) /\ GetPlayerInfo(m)
    \/ GetDrawWarning
    \/ \E who \in Keys(objs, players) : GetNightDeath(who)
    \/ \E who \in Keys(objs, players) : GetDayDeath(who)
    \/ \E who \in Keys(objs, players) : GetFoundGuilty(who)
    \/ \E who \in Keys(objs, players) : GetLeftAWill(who)
    \/ time[2] = "day" /\ GetTribunal
    \/ \E who \in Keys(objs, players) : GetUpped(who)
    \/ \E who \in Keys(objs, players) : GetDisconnect(who)
    \/ time[2] = "day" /\ GetNightStart(time[1])
    \/ time[2] = "night" /\ time[1] < MaxDeathDay /\ GetDayStart(time[1] + 1)

SpecDraw == Init /\ [][NextDraw]_vars

\* ---------------------------------------------------------------------------------------
\* parse.py: to_lines over the children of a body
\* ---------------------------------------------------------------------------------------

\* a child of the body: its place in the document and the tags of its sub-elements
Elem(id, kids) == [id |-> id, kids |-> kids]

\* to_lines that looks at the last sub-element
BreaksLast(c) == Len(c.kids) # 0 /\ c.kids[Len(c.kids)] = "br"

\* `len(child) and child[0].tag == "br"`
Breaks(c) == Len(c.kids) # 0 /\ c.kids[1] = "br"

\* child[0].drop_tree(): the child without its first sub-element
drop_tree(c) == [c EXCEPT !.kids = Tail(@)]

\* the most children a checked body has
MaxChildren == 3

\* what the children of the checked bodies hold
KidsMenu == { <<>>, <<"br">>, <<"span">>, <<"br", "span">>, <<"span", "br">>, <<"br", "br">> }

Bodies ==
    UNION { { [i \in 1..n |-> Elem(i, k[i])] : k \in [1..n -> KidsMenu] } : n \in 0..MaxChildren }

\* to_lines(text) is at `line = []` for a document that has a body
InitSplit ==
    /\ Fresh
    /\ zipped = FALSE /\ lines = <<>> /\ at = 1 /\ out = <<>> /\ first = <<>> /\ db = <<>>
    /\ pair = <<>> /\ operands = <<>>
    /\ body \in Bodies
    /\ child = 1
    /\ cur_line = <<>>

\* one turn of `for child in body`; a yielded Line goes to the lines of the text
ToLinesStep ==
    /\ pc = "run"
    /\ child <= Len(body)
    /\ IF Breaks(body[child])
       THEN /\ lines' = Append(lines, cur_line)
            /\ cur_line' = <<drop_tree(body[child])>>
       ELSE /\ lines' = lines
            /\ cur_line' = Append(cur_line, body[child])
    /\ child' = child + 1
    /\ UNCHANGED <<analyzer, zipped, count, pc, err, victor, branch, at, out, first, db, pair,
                   body, operands>>

\* the `yield Line(line)` after the loop
ToLinesEnd ==
    /\ pc = "run"
    /\ child > Len(body)
    /\ lines' = Append(lines, cur_line)
    /\ pc' = "exhausted"
    /\ UNCHANGED <<analyzer, zipped, count, err, victor, branch, at, out, first, db, pair,
                   splitter, operands>>

NextSplit ==
    \/ ToLinesStep
    \/ ToLinesEnd

SpecSplit == InitSplit /\ [][NextSplit]_vars

\* ---------------------------------------------------------------------------------------
\* lookout/logs.py: Gamelogs.see_message from `game, message_count = r` on, for messages
\* with one log of a Town Traitor game without neutrals; db is the table Games, by gist
\* ---------------------------------------------------------------------------------------

\* a log as parse_game returns it: its digest, the gist of its game, its message count
Log(digest, gist, message_count) ==
    [digest |-> digest, gist |-> gist, message_count |-> message_count]

\* the logs that are seen: four of one game, two of another
SeenLogs ==
    { Log("a", "g1", 5), Log("b", "g1", 7), Log("c", "g1", 7), Log("d", "g1", 6),
      Log("e", "g2", 6), Log("f", "g2", 5) }

Gists == { l.gist : l \in SeenLogs }

\* the calls of see_message in a run
MaxCalls == 4

\* see_message that takes every later log of the game
RicherAlways(message_count, existing_count) == TRUE

\* `if message_count >= existing_count`
Richer(message_count, existing_count) == message_count >= existing_count

\* the INSERT INTO Games of see_message
InsertGame(l) ==
    [gist |-> l.gist, from_log |-> l.digest, first_log |-> l.digest,
     message_count |-> l.message_count]

\* the UPDATE Games of see_message
UpdateGame(row, l) ==
    [row EXCEPT !.from_log = l.digest, !.message_count = l.message_count]

InitSee ==
    /\ Fresh
    /\ zipped = FALSE /\ lines = <<>> /\ at = 1 /\ out = <<>> /\ first = <<>>
    /\ db = [g \in Gists |-> <<>>]
    /\ pair = <<>> /\ body = <<>> /\ child = 1 /\ cur_line = <<>> /\ operands = <<>>

\* see_message for a message whose attachment is the log l; the c it returns goes to out.
\* The INSERT raises IntegrityError when the gist is a key of Games.
SeeMessage(l) ==
    /\ Len(out) < MaxCalls
    /\ IF db[l.gist] = <<>>
       THEN /\ db' = [db EXCEPT ![l.gist] = <<InsertGame(l)>>]
            /\ out' = Append(out, 1)
       ELSE LET existing_count == db[l.gist][1].message_count
            IN  /\ db' = IF Richer(l.message_count, existing_count)
                         THEN [db EXCEPT ![l.gist] = <<UpdateGame(db[l.gist][1], l)>>]
                         ELSE db
                /\ out' = Append(out, 0)
    /\ UNCHANGED <<analyzer, zipped, count, pc, err, victor, branch, lines, at, first, pair,
                   splitter, operands>>

NextSee == \E l \in SeenLogs : SeeMessage(l)

SpecSee == InitSee /\ [][NextSee]_vars

\* ---------------------------------------------------------------------------------------
\* model.py: the order of DayTime, for three DayTime values at hand
\* ---------------------------------------------------------------------------------------

\* class Time(Enum): the values of its members
TimeValue == [DAY |-> 0, NIGHT |-> 1]

\* DayTime(day, time)
DayTime(day, t) == [day |-> day, time |-> t]

\* an order of Time in which no member is below another
TimeLtNever(a, b) == FALSE

\* Time.__lt__
TimeLt(a, b) == TimeValue[a] < TimeValue[b]

\* DayTime.__lt__ as dataclass(order=True) writes it: (day, time) < (other.day, other.time),
\* decided by the first field in which the two tuples differ
DayTimeLt(a, b) ==
    IF a.day # b.day THEN a.day < b.day
    ELSE IF a.time # b.time THEN TimeLt(a.time, b.time)
    ELSE FALSE

\* the last day of the compared values
MaxOrderDay == 3

DayTimes == { DayTime(d, t) : d \in 1..MaxOrderDay, t \in DOMAIN TimeValue }

InitOrder ==
    /\ Fresh
    /\ zipped = FALSE /\ lines = <<>> /\ at = 1 /\ out = <<>> /\ first = <<>> /\ db = <<>>
    /\ pair = <<>> /\ body = <<>> /\ child = 1 /\ cur_line = <<>>
    /\ operands \in [1..3 -> DayTimes]

\* the values are compared: out holds x < y for every two of them, by position
Compare ==
    /\ pc = "run"
    /\ out' = [i \in 1..3 |-> [j \in 1..3 |-> DayTimeLt(operands[i], operands[j])]]
    /\ pc' = "returned"
    /\ UNCHANGED <<analyzer, zipped, count, err, victor, branch, lines, at, first, db, pair,
                   splitter, operands>>

NextOrder == Compare

SpecOrder == InitOrder /\ [][NextOrder]_vars

\* ---------------------------------------------------------------------------------------
\* analyzer.py: player lists with a VIP in which a name is listed again
\* ---------------------------------------------------------------------------------------

VipInfos ==
    { Info(1, "p1", <<"Sheriff", TownColour>>, <<>>, TRUE),
      Info(1, "p1", <<"Sheriff", TownColour>>, <<>>, FALSE),
      Info(2, "p2", <<"Jailor", TownColour>>, <<>>, FALSE),
      Info(3, "p3", <<"Coven Leader", CovenColour>>, <<>>, FALSE),
      Info(4, "p4", <<"Seer", TownColour>>, <<>>, FALSE),
      Info(5, "p5", <<"Witch", CovenColour>>, <<>>, FALSE) }

\* the Player objects these logs create at most
MaxVipObjs == 6

\* a new name is listed in the seat after the last one
NextVip ==
    \/ \E m \in VipInfos :
          /\ IF m.game_name \in Keys(objs, players)
             THEN NewRef(m.game_name) <= MaxVipObjs
             ELSE m.number = Len(players) + 1
          /\ GetPlayerInfo(m)
    \/ \E who \in {"p1"} \cap Keys(objs, players) : GetNightDeath(who)
    \/ Result

SpecVip == Init /\ [][NextVip]_vars

\* ---------------------------------------------------------------------------------------
\* analyzer.py: ResultAnalyzer() & MessageCountAnalyzer() on logs with chat, whispers, the
\* lines before the player list and repeated "trials remaining" lines
\* ---------------------------------------------------------------------------------------

\* the messages these logs have at most
MaxMessages == 8

InitCounted ==
    /\ Fresh
    /\ zipped = TRUE
    /\ lines = <<>> /\ at = 1 /\ out = <<>> /\ first = <<>> /\ db = <<>> /\ pair = <<>>
    /\ body = <<>> /\ child = 1 /\ cur_line = <<>> /\ operands = <<>>

NextCounted ==
    \/ /\ count < MaxMessages
       /\ \E m \in HuntInfos :
             m.game_name \notin Keys(objs, players) /\ Listed(m) /\ GetPlayerInfo(m)
    \/ count < MaxMessages /\ GetTrialsRemaining
    \/ count < MaxMessages /\ GetDeathPop
    \/ count < MaxMessages /\ GetOther
    \/ Result

SpecCounted == InitCounted /\ [][NextCounted]_vars

\* ---------------------------------------------------------------------------------------
\* analyzer.py: logs that end with Town and Coven alive and nothing but the Hex Master
\* branch left to decide
\* ---------------------------------------------------------------------------------------

\* one or two Hex Masters, and in seat 2 a Sheriff, a Necromancer, a Retributionist, or a
\* Retributionist in the Coven's colour (the Town Traitor)
HexInfos ==
    { Info(1, "p1", <<"Sheriff", TownColour>>, <<>>, FALSE),
      Info(2, "p2", <<"Sheriff", TownColour>>, <<>>, FALSE),
      Info(2, "p2", <<"Necromancer", CovenColour>>, <<>>, FALSE),
      Info(2, "p2", <<"Retributionist", TownColour>>, <<>>, FALSE),
      Info(2, "p2", <<"Retributionist", CovenColour>>, <<>>, FALSE),
      Info(3, "p3", <<"Hex Master", CovenColour>>, <<>>, FALSE),
      Info(3, "p3", <<"Witch", CovenColour>>, <<>>, FALSE),
      Info(4, "p4", <<"Jailor", TownColour>>, <<>>, FALSE),
      Info(5, "p5", <<"Hex Master", CovenColour>>, <<>>, FALSE),
      Info(5, "p5", <<"Witch", CovenColour>>, <<>>, FALSE) }

\* the players that die in these logs
HexVictims == {"p2", "p3", "p5"}

NextHex ==
    \/ \E m \in HexInfos :
          m.game_name \notin Keys(objs, players) /\ Listed(m) /\ GetPlayerInfo(m)
    \/ Len(players) = 5 /\ modifiers = <<>> /\ GetDayStart1
    \/ \E who \in HexVictims \cap Keys(objs, players) : GetNightDeath(who)
    \/ Result

SpecHex == Init /\ [][NextHex]_vars





-----------------------------------------------------------------------------
(* Properties of parse_result, checked under Spec *)

\* result() reached its last statement: `victor`, `branch` and the heap are what it
\* hands to GameResult
AtReturn == branch # "none"

\* the step is the call of result() on a roster that is large enough
ResultStep == branch = "none" /\ branch' # "none"

Factions == {town, coven, apocalypse, arsonist, serial_killer, shroud, werewolf, vampire}

\* the factions that some player without a recorded death ends in
AliveFactions ==
    { f \in Factions : \E i \in DOMAIN players :
         objs[players[i]].died = <<>> /\ objs[players[i]].ending_ident.faction = f }

\* result() left every ending faction as it was
NoReclass == \A i \in DOMAIN players :
    objs'[players[i]].ending_ident = objs[players[i]].ending_ident

ThreeKinds == {"InvalidHTMLError", "NotLogError", "UnsupportedRoleError"}

\* C1 as stated: a log that leaves fewer than 5 players in the roster ends with
\* NotLogError.
C1_FewPlayersNotLog ==
    (pc # "run" /\ Len(players) < 5) => (pc = "failed" /\ err[1] = "NotLogError")

\* C1, amended: with fewer than 5 players in the roster no GameResult is produced and
\* result() is never past its first test: a finished parse has failed, and not at the
\* last statement of result().
C1_FewPlayersNoResult ==
    Len(players) < 5 =>
        /\ pc # "returned"
        /\ branch = "none"
        /\ victor = unknown
        /\ pc = "failed" => err[1] # "TypeError"

C1_Witness ==
    /\ Len(players) = 4
    /\ pc = "failed"
    /\ err = <<"NotLogError", "input is not a gamelog">>

\* C2: when exactly one faction is alive at result(), it is the victor, the branch taken
\* is the single-faction one and no ending faction changes, whatever the flags are.
C2_SingleFactionWins ==
    [][(ResultStep /\ Cardinality(AliveFactions) = 1) =>
          /\ victor' \in AliveFactions
          /\ branch' = "single"
          /\ NoReclass]_vars

C2_Witness ==
    /\ branch = "single"
    /\ victor = town
    /\ death_popped
    /\ draw_tomorrow
    /\ hunt_reached = <<time[1] - 3>>

\* C3: when every player has a recorded death at result(), the victor is a draw.
C3_AllDeadDraw ==
    (AtReturn /\ \A i \in DOMAIN players : objs[players[i]].died # <<>>) =>
        victor = "None"

C3_Witness ==
    /\ AtReturn
    /\ \A i \in DOMAIN players : objs[players[i]].died # <<>>
    /\ \E i \in DOMAIN players : objs[players[i]].ending_ident.role = "Hex Master"
    /\ death_popped
    /\ hunt_reached = <<time[1] - 3>>

\* C4: at the end of result(), every player whose ending faction is the victor has won.
C4_VictorFactionWon ==
    AtReturn => \A i \in DOMAIN players :
        objs[players[i]].ending_ident.faction = victor => objs[players[i]].won

C4_Witness ==
    /\ branch = "indoctrinated"
    /\ \E i \in DOMAIN players :
          /\ objs[players[i]].died # <<>>
          /\ objs[players[i]].ending_ident.faction = victor
          /\ objs[players[i]].won
    /\ \E i \in DOMAIN players :
          /\ objs[players[i]].starting_ident.role = "Sheriff"
          /\ objs[players[i]].ending_ident.faction = coven
          /\ objs[players[i]].won

\* the won flag of a player of the roster goes from false to true
Crowned(id) == ~objs[id].won /\ objs'[id].won

\* C5: result() sets won on nobody whose ending faction differs from the victor, and
\* before result() only FoundGuilty (on a Jester) and LeftTown set it, on the player
\* they name; with a roster of
\* Town and Coven players in which every Town player has died and no Coven player has,
\* the victor is Coven, every Coven player has won and no Town player is crowned.
C5_OthersNotWon ==
    [][/\ \A i \in DOMAIN players :
            (players'[i] = players[i] /\ Crowned(players[i])) =>
                \/ ResultStep /\ objs'[players[i]].ending_ident.faction = victor'
                \/ /\ GetFoundGuilty(objs[players[i]].game_name)
                   /\ objs[players[i]].ending_ident.role = "Jester"
                \/ GetLeftTown(objs[players[i]].game_name)
       /\ ( /\ ResultStep
            /\ \A i \in DOMAIN players :
                  \/ /\ objs[players[i]].ending_ident.faction = town
                     /\ objs[players[i]].died # <<>>
                  \/ /\ objs[players[i]].ending_ident.faction = coven
                     /\ objs[players[i]].died = <<>> )
          => /\ victor' = coven
             /\ \A i \in DOMAIN players :
                   /\ objs[players[i]].ending_ident.faction = coven => objs'[players[i]].won
                   /\ objs[players[i]].ending_ident.faction = town => ~Crowned(players[i])
      ]_vars

C5_Witness ==
    /\ AtReturn
    /\ victor = coven
    /\ \A i \in DOMAIN players :
          \/ /\ objs[players[i]].ending_ident.faction = town
             /\ objs[players[i]].died = <<0, "night">>
             /\ ~objs[players[i]].won
          \/ /\ objs[players[i]].ending_ident.faction = coven
             /\ objs[players[i]].died = <<>>
             /\ objs[players[i]].won
    /\ Cardinality({ i \in DOMAIN players : objs[players[i]].ending_ident.faction = town }) = 2

\* C6 as stated: once FoundGuilty named a player whose ending role is Jester, the record
\* the roster holds under that name has won = true after the message and after every
\* later message and result().
C6_JesterWinKept ==
    [][\A who \in Names :
          /\ (who \in Keys(objs, players) /\ GetFoundGuilty(who)
                 /\ objs[Ref(objs, players, who)].ending_ident.role = "Jester")
               => objs'[Ref(objs', players', who)].won
          /\ (who \in Keys(objs, players)
                 /\ objs[Ref(objs, players, who)].ending_ident.role = "Jester"
                 /\ objs[Ref(objs, players, who)].died # <<>>
                 /\ objs[Ref(objs, players, who)].won)
               => objs'[Ref(objs', players', who)].won
      ]_vars

\* C8: with two or more factions alive at result(), the first of death-pop, hunt
\* countdown, no-deaths flag, indoctrination, vampire conversion that holds decides the
\* victor alone; only the branch that fired reclassifies; when none of the five holds,
\* nobody is reclassified and the victor is Coven or unresolved, unresolved for a roster
\* without a Hex Master.
C8_CascadePriority ==
    [][LET LivingTown == { i \in DOMAIN players :
                             /\ objs[players[i]].died = <<>>
                             /\ objs[players[i]].ending_ident.faction = town }
           c1 == death_popped
           c2 == hunt_reached # <<>> /\ hunt_reached[1] = time[1] - 3
           c3 == draw_tomorrow
           c4 == /\ AliveFactions = {town, coven}
                 /\ Cardinality(LivingTown) = 1
                 /\ \E i \in DOMAIN players : objs[players[i]].starting_ident.role = "Cultist"
           c5 == /\ AliveFactions = {town, vampire}
                 /\ Cardinality(LivingTown) <= 3
           Only(S, f) == \A i \in DOMAIN players :
                            IF i \in S
                            THEN objs'[players[i]].ending_ident.faction = f
                            ELSE objs'[players[i]].ending_ident = objs[players[i]].ending_ident
       IN  (ResultStep /\ Cardinality(AliveFactions) >= 2) =>
              IF c1 THEN victor' = apocalypse /\ branch' = "death" /\ NoReclass
              ELSE IF c2 THEN victor' = coven /\ branch' = "hunt" /\ NoReclass
              ELSE IF c3 THEN victor' = "None" /\ branch' = "no_deaths" /\ NoReclass
              ELSE IF c4 THEN victor' = coven /\ branch' = "indoctrinated" /\ Only(LivingTown, coven)
              ELSE IF c5 THEN victor' = vampire /\ branch' = "converted" /\ Only(LivingTown, vampire)
              ELSE /\ NoReclass
                   /\ victor' \in {coven, unknown}
                   /\ branch' \in {"hex", "unresolved"}
                   /\ (\A i \in DOMAIN players :
                          objs[players[i]].ending_ident.role # "Hex Master") => victor' = unknown
      ]_vars

\* a death win decided while the hunt countdown and the no-deaths flag held as well
C8_Witness ==
    /\ branch = "death"
    /\ victor = apocalypse
    /\ hunt_reached = <<time[1] - 3>>
    /\ draw_tomorrow
    /\ \E i \in DOMAIN players : objs[players[i]].starting_ident.role = "Cultist"

\* C9 as stated: a parse that fails fails with one of the three error kinds.
C9_ThreeErrorKinds == pc = "failed" => err[1] \in ThreeKinds

\* C7: the first HuntWarning(days_left) of a log, on day d, sets hunt_reached to
\* d + days_left - 3; and result() on day e with two or more factions alive, death_popped
\* clear and hunt_reached = e - 3 makes Coven the victor.
C7_HuntCountdown ==
    [][/\ \A k \in HuntDigits :
            (GetHuntWarning(k) /\ hunt_reached = <<>>) =>
                hunt_reached' = <<time[1] + k - 3>>
       /\ ( /\ ResultStep
            /\ Cardinality(AliveFactions) >= 2
            /\ ~death_popped
            /\ hunt_reached = <<time[1] - 3>> )
          => victor' = coven /\ branch' = "hunt"
      ]_vars

\* the log of the scenario: hunt_reached is day 5, the log ends on day 8 with Town and
\* Coven alive
C7_Witness ==
    /\ branch = "hunt"
    /\ victor = coven
    /\ time[1] = 8
    /\ hunt_reached = <<5>>
    /\ AliveFactions = {town, coven}

\* C10 as stated: classifying a line never raises: to_messages never ends with an
\* exception, and every line it went past was yielded as a message or missed.
C10_ClassifyNeverRaises ==
    /\ pc # "failed"
    /\ \A i \in 1..(at - 1) : MessageFromLine(lines[i]).raised \in {"", NotMessage}

\* C11: a PlayerInfo whose role name or previous-role name is not in the role table ends
\* the parse with UnsupportedRoleError carrying a name of the message that the table
\* lacks (the role's when it is unknown, else the previous role's) and changes nothing
\* of the analyzer.
C11_UnsupportedRole ==
    [][\A m \in RosterInfos :
          LET bad == { n \in {m.role[1]} \cup {m.prev_role[i] : i \in DOMAIN m.prev_role \cap {1}} :
                         n \notin RoleNames }
          IN  (Listed(m) /\ GetPlayerInfo(m) /\ bad # {}) =>
                 /\ pc' = "failed"
                 /\ err'[1] = "UnsupportedRoleError"
                 /\ err'[2] \in bad
                 /\ (m.role[1] \in bad => err'[2] = m.role[1])
                 /\ UNCHANGED <<analyzer, count, victor, branch>>
      ]_vars

\* the previous role of the second line is unknown; the roster has the VIP of the first
C11_Witness ==
    /\ pc = "failed"
    /\ err = <<"UnsupportedRoleError", "Warlock">>
    /\ Len(players) = 1
    /\ vip # <<>>
    /\ modifiers = <<"VIP">>
    /\ townie_colours # <<>>

\* the second parse() of the lines is over
Twice == first # <<>> /\ pc # "run"

\* how a parse() ended: what result() hands to GameResult at its last statement, or the
\* kind of exception of a parse() that did not get there (which of several unknown
\* names a KeyError carries follows the order of a set)
Outcome(e) ==
    IF e.branch = "none" THEN [pc |-> e.pc, err |-> e.err[1]]
    ELSE [players |-> [i \in DOMAIN e.players |-> e.objs[e.players[i]]],
          victor |-> e.victor, hunt_reached |-> e.hunt_reached, modifiers |-> e.modifiers,
          vip |-> IF e.vip = <<>> THEN <<>> ELSE <<e.objs[e.vip[1]]>>,
          ended |-> e.time, pc |-> e.pc, err |-> e.err]

C13_OutcomeCarried ==
    AtReturn =>
        /\ pc = "returned"
        /\ \E i \in DOMAIN GameResultArgs(objs, players, victor) :
              GameResultFields[i] = "outcome"

\* the (in-game name, account name, ending role) triples of a tuple of players
Triples(ps) ==
    { <<ps[i].game_name, ps[i].account_name, ps[i].ending_ident.role>> : i \in DOMAIN ps }

\* C14 as stated: the fingerprint of a game is the fingerprint of every game whose players
\* carry the same triples, in whatever order they were introduced.
C14_GistOfTriples ==
    pc = "gist" =>
        \A t \in GistTuples :
            (Len(t) = Len(players) /\ Triples(t) = Triples(Values(objs, players)))
                => gist_of(t) = out[1]


Classified == { i \in 1..Len(lines) : MessageFromLine(lines[i]).raised = "" }

\* C16: when parse() has returned for x & y, for x alone and for y alone over the same
\* text, x & y gave every classified message to x and then to y, in the order of the
\* lines, its result is the pair of the results of x alone and y alone, and the second
\* component, the result of a MessageCountAnalyzer, is the number of classified messages
C16_ZipIsPair ==
    pc = "returned" =>
        /\ pair.results[1] = <<pair.results[2], pair.results[3]>>
        /\ pair.results[1][2] = Cardinality(Classified)
        /\ Len(pair.log) = 2 * Cardinality(Classified)
        /\ { pair.log[k][2] : k \in DOMAIN pair.log } = Classified
        /\ \A k \in DOMAIN pair.log :
              /\ (k % 2 = 1) => pair.log[k][1] = "x" /\ pair.log[k + 1] = <<"y", pair.log[k][2]>>
              /\ \A l \in DOMAIN pair.log : k < l => pair.log[k][2] <= pair.log[l][2]

\* the three calls of parse() returned for a text of three lines, one of them no message
C16_Witness ==
    /\ pc = "returned"
    /\ Len(lines) = 3
    /\ pair.results = << <<2, 2>>, 2, 2 >>
    /\ pair.log = << <<"x", 1>>, <<"y", 1>>, <<"x", 3>>, <<"y", 3>> >>


\* what the roster holds under a name: the seat, the identities, the death time and the
\* won flag of the record
Kept(o, ps, who) ==
    LET player == o[Ref(o, ps, who)]
    IN  <<player.number, player.starting_ident, player.ending_ident, player.died, player.won>>

\* C17 as stated: no step makes the roster shorter or drops a name, and a PlayerInfo whose
\* in-game name the roster already holds leaves the seat, the identities, the death time
\* and the won flag of the record under that name as they were.
C17_RecordKept ==
    [][/\ Len(players') >= Len(players)
       /\ Keys(objs, players) \subseteq Keys(objs', players')
       /\ \A m \in RosterInfos :
             (m.game_name \in Keys(objs, players) /\ Listed(m) /\ GetPlayerInfo(m)
                 /\ pc' = "run")
               => Kept(objs', players', m.game_name) = Kept(objs, players, m.game_name)
      ]_vars


\* C18 as stated, for logs in which every death time was inferred before a death message
\* names the player: a NightDeath, DayDeath or FoundGuilty for a player whose death time
\* is set leaves the time of that message in its place, a Reconnect for a player who is not
\* in the disconnected set clears it, and no other step changes a death time that is set.
C18_DeathTimeChanges ==
    [][\A who \in Keys(objs, players) :
          Died(objs, players, who) # <<>> =>
             /\ GetNightDeath(who) => Died(objs', players', who) = DiedAt(time, TRUE)
             /\ (GetDayDeath(who) \/ GetFoundGuilty(who))
                   => Died(objs', players', who) = DiedAt(time, FALSE)
             /\ (who \notin dced /\ GetReconnect(who)) => Died(objs', players', who) = <<>>
             /\ Died(objs', players', who) # Died(objs, players, who)
                   => \/ GetNightDeath(who) \/ GetDayDeath(who) \/ GetFoundGuilty(who)
                      \/ (who \notin dced /\ GetReconnect(who))
      ]_vars


\* C19 as stated: once a HuntWarning has set the hunt-reached day, a later HuntWarning
\* leaves it unchanged, whatever its days_left, the current day and the value the first
\* one computed.
C19_FirstHuntWarningOnly ==
    [][\A k \in HuntDigits :
          (hunt_reached # <<>> /\ GetHuntWarning(k)) => hunt_reached' = hunt_reached
      ]_vars


\* the step is result() reaching the last branch of its cascade: two or more factions
\* alive and none of death-pop, hunt countdown, no-deaths flag, indoctrination and vampire
\* conversion holds
ReachesHex ==
    /\ ResultStep
    /\ Cardinality(AliveFactions) >= 2
    /\ ~death_popped
    /\ hunt_reached # <<time[1] - 3>>
    /\ ~draw_tomorrow
    /\ ~ /\ AliveFactions = {town, coven}
         /\ Cardinality({ i \in DOMAIN players :
                            /\ objs[players[i]].died = <<>>
                            /\ objs[players[i]].ending_ident.faction = town }) = 1
         /\ \E i \in DOMAIN players : objs[players[i]].starting_ident.role = "Cultist"
    /\ ~ /\ AliveFactions = {town, vampire}
         /\ Cardinality({ i \in DOMAIN players :
                            /\ objs[players[i]].died = <<>>
                            /\ objs[players[i]].ending_ident.faction = town }) <= 3

\* the seats of the roster whose ending role is Hex Master
HexMasters == { i \in DOMAIN players : objs[players[i]].ending_ident.role = "Hex Master" }

\* some living player is an evil raiser: ending role Necromancer, or ending role
\* Retributionist with a faction other than Town
LivingRaiser ==
    \E i \in DOMAIN players :
        /\ objs[players[i]].died = <<>>
        /\ \/ objs[players[i]].ending_ident.role = "Necromancer"
           \/ /\ objs[players[i]].ending_ident.role = "Retributionist"
              /\ objs[players[i]].ending_ident.faction # town

\* C20 as stated: in the Hex Master branch Coven wins exactly when some player's ending
\* role is Hex Master and that player is dead or some living player is an evil raiser.
C20_HexDead ==
    [][ReachesHex =>
          /\ victor' = coven <=>
                \E i \in HexMasters : objs[players[i]].died # <<>> \/ LivingRaiser
          /\ victor' # coven => victor' = unknown
      ]_vars

\* C20, amended: in the Hex Master branch Coven wins exactly when some player's ending
\* role is Hex Master and the first such player of the roster is alive or some living
\* player is an evil raiser; otherwise the victor stays unresolved.
C20_HexAlive ==
    [][ReachesHex =>
          /\ victor' = coven <=>
                /\ HexMasters # {}
                /\ \/ \E i \in HexMasters :
                         /\ \A j \in HexMasters : i <= j
                         /\ objs[players[i]].died = <<>>
                   \/ LivingRaiser
          /\ victor' # coven => victor' = unknown
      ]_vars

\* the first Hex Master is dead, the second alive, and a Retributionist of the Coven is
\* alive: the branch made Coven the victor
C20_Witness ==
    /\ branch = "hex"
    /\ victor = coven
    /\ Cardinality(HexMasters) = 2
    /\ \E i \in HexMasters : objs[players[i]].died # <<>> /\ \A j \in HexMasters : i <= j
    /\ \E i \in DOMAIN players :
          /\ objs[players[i]].died = <<>>
          /\ objs[players[i]].ending_ident = [role |-> "Retributionist", faction |-> coven]

\* the living players of the roster whose ending faction is Town
LivingTown ==
    { i \in DOMAIN players :
        objs[players[i]].died = <<>> /\ objs[players[i]].ending_ident.faction = town }

\* none of death-pop, hunt countdown and no-deaths flag decides
NoEarlierBranch ==
    /\ ~death_popped
    /\ hunt_reached # <<time[1] - 3>>
    /\ ~draw_tomorrow

\* C21: when result() finds no earlier branch firing and the alive factions are exactly
\* Town and Coven, then with exactly one living Town player and some player whose starting
\* role is Cultist, that player's ending faction becomes Coven, the victor is Coven and
\* the player has won; with two or more living Town players, or without a Cultist, nobody
\* is reclassified.
C21_Indoctrinated ==
    [][(ResultStep /\ NoEarlierBranch /\ AliveFactions = {town, coven}) =>
          IF /\ Cardinality(LivingTown) = 1
             /\ \E i \in DOMAIN players : objs[players[i]].starting_ident.role = "Cultist"
          THEN /\ victor' = coven
               /\ \A i \in LivingTown :
                     /\ objs'[players[i]].ending_ident.faction = coven
                     /\ objs'[players[i]].won
               /\ \A i \in DOMAIN players \ LivingTown :
                     objs'[players[i]].ending_ident = objs[players[i]].ending_ident
          ELSE NoReclass
      ]_vars

\* the last living Town player of a game with a Cultist ended in the Coven and has won
C21_Witness ==
    /\ branch = "indoctrinated"
    /\ victor = coven
    /\ \E i \in DOMAIN players :
          /\ objs[players[i]].ending_ident = [role |-> "Sheriff", faction |-> coven]
          /\ objs[players[i]].died = <<>>
          /\ objs[players[i]].won
    /\ \E i \in DOMAIN players :
          /\ objs[players[i]].ending_ident = [role |-> "Sheriff", faction |-> town]
          /\ objs[players[i]].died # <<>>
          /\ ~objs[players[i]].won

\* C22: when result() finds no earlier branch firing and the alive factions are exactly
\* Town and Vampire, then with at most 3 living Town players every living Town player's
\* ending faction becomes Vampire, everybody else (the dead Town players too) keeps their
\* ending identity, and the victor is Vampire; with 4 or more living Town players nobody
\* is reclassified and Vampire is not the victor.
C22_Converted ==
    [][(ResultStep /\ NoEarlierBranch /\ AliveFactions = {town, vampire}) =>
          IF Cardinality(LivingTown) <= 3
          THEN /\ victor' = vampire
               /\ \A i \in LivingTown : objs'[players[i]].ending_ident.faction = vampire
               /\ \A i \in DOMAIN players \ LivingTown :
                     objs'[players[i]].ending_ident = objs[players[i]].ending_ident
          ELSE NoReclass /\ victor' # vampire
      ]_vars

\* three Town players were alive and ended as Vampires, two had died and ended in Town
C22_Witness ==
    /\ branch = "converted"
    /\ victor = vampire
    /\ Cardinality({ i \in DOMAIN players :
                       /\ objs[players[i]].died = <<>>
                       /\ objs[players[i]].ending_ident.faction = vampire
                       /\ objs[players[i]].ending_ident.role # "Vampire" }) = 3
    /\ Cardinality({ i \in DOMAIN players :
                       /\ objs[players[i]].died # <<>>
                       /\ objs[players[i]].ending_ident.faction = town }) = 2

C24_DayStartResolves ==
    [][\A n \in 2..MaxDeathDay :
          (GetDayStart(n) /\ pc' = "run") =>
             /\ time' = <<n, "day">>
             /\ ~trial_period'
             /\ dced' = {}
             /\ \A who \in Keys(objs, players) :
                   Died(objs', players', who) =
                      IF who \in dced /\ Died(objs, players, who) = <<>>
                      THEN <<n - 1, "night">>
                      ELSE Died(objs, players, who)
      ]_vars

\* DayStart(2) resolved p2, DayStart(3) resolved p1, and p3 is alive; nobody is left in
\* the disconnected set
C24_Witness ==
    /\ pc = "run"
    /\ time = <<3, "day">>
    /\ dced = {}
    /\ ~trial_period
    /\ Len(players) = 3
    /\ Died(objs, players, "p1") = <<2, "night">>
    /\ Died(objs, players, "p2") = <<1, "night">>
    /\ Died(objs, players, "p3") = <<>>

\* C25: Reconnect(who) for a player of the roster who is in the disconnected set takes
\* who out of the set and changes nothing else; for a player who is not in the set it
\* clears who's recorded death, so that result() counts who among the living, and changes
\* nothing else.
C25_Reconnect ==
    [][\A who \in Keys(objs, players) :
          GetReconnect(who) =>
             IF who \in dced
             THEN /\ dced' = dced \ {who}
                  /\ UNCHANGED <<objs, players, townie_colours, coven_colour, hunt_reached,
                                 in_trib, trial_period, time, modifiers, death_popped,
                                 draw_tomorrow, vip>>
             ELSE /\ Died(objs', players', who) = <<>>
                  /\ Ref(objs', players', who) \in Alive(objs', players')
                  /\ \A id \in DOMAIN objs :
                        objs'[id] = IF id = Ref(objs, players, who)
                                    THEN [objs[id] EXCEPT !.died = <<>>] ELSE objs[id]
                  /\ UNCHANGED <<players, townie_colours, coven_colour, dced, hunt_reached,
                                 in_trib, trial_period, time, modifiers, death_popped,
                                 draw_tomorrow, vip>>
      ]_vars

\* after DayStart(2) resolved p1 and p2 and DayStart(3) resolved p3, p1 reconnected: p1 has
\* no recorded death, the other two have theirs
C25_Witness ==
    /\ pc = "run"
    /\ time = <<3, "day">>
    /\ dced = {}
    /\ Len(players) = 3
    /\ Died(objs, players, "p1") = <<>>
    /\ Died(objs, players, "p2") = <<1, "night">>
    /\ Died(objs, players, "p3") = <<2, "night">>

\* C26: for a player of the roster with no recorded death, NightDeath records the night
\* of the day index before the current one, and DayDeath, FoundGuilty and LeftAWill record
\* the current DayTime.
C26_Backdating ==
    [][\A who \in Keys(objs, players) :
          Died(objs, players, who) = <<>> =>
             /\ GetNightDeath(who) => Died(objs', players', who) = <<time[1] - 1, "night">>
             /\ (GetDayDeath(who) \/ GetFoundGuilty(who) \/ GetLeftAWill(who))
                   => Died(objs', players', who) = time
      ]_vars

\* on day 2, p1 was reported dead by night and p2 by day; p3 had died in night 1
C26_Witness ==
    /\ time = <<2, "day">>
    /\ Len(players) = 3
    /\ Died(objs, players, "p1") = <<1, "night">>
    /\ Died(objs, players, "p2") = <<2, "day">>
    /\ Died(objs, players, "p3") = <<0, "night">>

-----------------------------------------------------------------------------
(* Properties of the miscolouring judgment, checked under SpecJudge *)

\* the PlayerInfo that created the object showed a Town role
ShownTown(id) == \E j \in DOMAIN townie_colours : townie_colours[j][1] = id

\* the colour that PlayerInfo showed
ShownColour(id) == townie_colours[CHOOSE j \in DOMAIN townie_colours : townie_colours[j][1] = id][2]

\* a Town role shown in the recorded Coven colour
Miscoloured(id) == ShownTown(id) /\ <<ShownColour(id)>> = coven_colour

\* C27 as stated: DayStart(1) leaves every player of the roster whose PlayerInfo showed a
\* Town role in the recorded Coven colour with starting and ending faction Coven and with
\* "Town Traitor" among the modifiers; a player whose Town role was shown in another
\* colour, or when no Coven colour is recorded, has the factions it had, and when no
\* player of the roster is miscoloured the modifiers are what they were.
C27_Judgment ==
    [][GetDayStart1 =>
         /\ \A i \in DOMAIN players :
               LET id == players[i]
               IN  /\ Miscoloured(id) =>
                          /\ objs'[id].starting_ident.faction = coven
                          /\ objs'[id].ending_ident.faction = coven
                          /\ \E k \in DOMAIN modifiers' : modifiers'[k] = "Town Traitor"
                   /\ (ShownTown(id) /\ ~Miscoloured(id)) =>
                          /\ objs'[id].starting_ident = objs[id].starting_ident
                          /\ objs'[id].ending_ident = objs[id].ending_ident
         /\ (\A i \in DOMAIN players : ~Miscoloured(players[i])) => modifiers' = modifiers
      ]_vars

-----------------------------------------------------------------------------
(* Properties of the PlayerInfo case, checked under SpecFaction *)

\* C28: the player a PlayerInfo creates has, when its ending role is not Vampire, the
\* default faction of its starting role as ending faction; when its ending role is
\* Vampire, ending faction Vampire and, if a previous role is shown, the default faction of
\* that role as starting faction; and with no previous role one identity for both.
C28_Factions ==
    [][\A m \in FactionInfos :
          (m.game_name \notin Keys(objs, players) /\ GetPlayerInfo(m)) =>
             LET p == objs'[Ref(objs', players', m.game_name)]
             IN  /\ p.ending_ident.role = m.role[1]
                 /\ m.role[1] # "Vampire" =>
                       p.ending_ident.faction = by_name[p.starting_ident.role].default_faction
                 /\ m.role[1] = "Vampire" =>
                       /\ p.ending_ident.faction = vampire
                       /\ m.prev_role # <<>> =>
                             /\ p.starting_ident.role = m.prev_role[1]
                             /\ p.starting_ident.faction = by_name[m.prev_role[1]].default_faction
                 /\ m.prev_role = <<>> =>
                       /\ p.shared
                       /\ p.starting_ident = p.ending_ident
      ]_vars

\* a Sheriff that was a Coven Leader, a Vampire that was a Spy and a Vampire from the start
C28_Witness ==
    /\ Len(players) = 3
    /\ \E i \in DOMAIN players :
          /\ objs[players[i]].ending_ident = [role |-> "Sheriff", faction |-> coven]
          /\ objs[players[i]].starting_ident.role = "Coven Leader"
    /\ \E i \in DOMAIN players :
          /\ objs[players[i]].ending_ident = [role |-> "Vampire", faction |-> vampire]
          /\ (objs[players[i]].starting_ident = [role |-> "Spy", faction |-> town]
              \/ objs[players[i]].shared)
    /\ \E i \in DOMAIN players :
          /\ objs[players[i]].ending_ident = [role |-> "Witch", faction |-> town]

-----------------------------------------------------------------------------
(* Properties of the LeftTown case, checked under SpecLeft *)

\* the starting role of the object is Cursed Soul
CursedSoul(o, id) == o[id].starting_ident.role = "Cursed Soul"

\* C29: LeftTown(who, _) for a player of the roster leaves who with won set; when who
\* started as Cursed Soul, every player of the roster that started as Cursed Soul has won
\* set; every other player has the won flag it had, and no death time changes.
C29_LeftTown ==
    [][\A who \in Keys(objs, players) :
          GetLeftTown(who) =>
             LET them == Ref(objs, players, who)
             IN  /\ objs'[them].won
                 /\ CursedSoul(objs, them) =>
                       \A i \in DOMAIN players :
                          CursedSoul(objs, players[i]) => objs'[players[i]].won
                 /\ \A i \in DOMAIN players :
                       (players[i] # them
                          /\ ~(CursedSoul(objs, them) /\ CursedSoul(objs, players[i])))
                         => objs'[players[i]].won = objs[players[i]].won
                 /\ \A i \in DOMAIN players :
                       objs'[players[i]].died = objs[players[i]].died
                 /\ players' = players
      ]_vars

\* two players that started as Cursed Soul have won, one of them dead, and the Sheriff
\* and the Jester listed with them have not
C29_Witness ==
    /\ Len(players) = 4
    /\ CursedSoul(objs, players[2]) /\ CursedSoul(objs, players[4])
    /\ objs[players[2]].won /\ objs[players[4]].won
    /\ objs[players[4]].died # <<>>
    /\ ~CursedSoul(objs, players[1]) /\ ~objs[players[1]].won
    /\ ~objs[players[3]].won

-----------------------------------------------------------------------------
(* Properties of the no-deaths flag, checked under SpecDraw *)

\* C30 as stated: DrawWarning leaves the no-deaths flag set, and every death event that is
\* processed for a player of the roster (NightDeath, DayDeath, FoundGuilty, LeftAWill,
\* Upped while a Tribunal is declared, DayStart(n) resolving a disconnected player) leaves
\* it cleared.
C30_KillClearsFlag ==
    [][/\ GetDrawWarning => draw_tomorrow'
       /\ \A who \in Keys(objs, players) :
             (\/ GetNightDeath(who)
              \/ GetDayDeath(who)
              \/ GetFoundGuilty(who)
              \/ GetLeftAWill(who)
              \/ in_trib /\ GetUpped(who)) => ~draw_tomorrow'
       /\ (dced # {} /\ \E n \in 2..MaxDeathDay : GetDayStart(n)) => ~draw_tomorrow'
      ]_vars

-----------------------------------------------------------------------------
(* Properties of to_lines, checked under SpecSplit *)

\* the first sub-element of a child of the body is a line break
FirstIsBreak(i) == body[i].kids # <<>> /\ Head(body[i].kids) = "br"

\* the places in the document of the elements of the yielded lines, line after line
RECURSIVE Places(_)
Places(ls) ==
    IF ls = <<>> THEN <<>>
    ELSE [i \in DOMAIN ls[1] |-> ls[1][i].id] \o Places(Tail(ls))

\* C31: when to_lines is exhausted it has yielded b + 1 lines, b the number of children
\* whose first sub-element is a line break; the lines hold the children in document order,
\* each once; every such child is the first element of a line after the first; and the
\* last line is yielded whatever it holds.
C31_ToLines ==
    pc = "exhausted" =>
       /\ Len(lines) = Cardinality({ i \in DOMAIN body : FirstIsBreak(i) }) + 1
       /\ Places(lines) = [i \in DOMAIN body |-> i]
       /\ \A i \in DOMAIN body :
             FirstIsBreak(i) <=>
                \E l \in 2..Len(lines) : lines[l] # <<>> /\ lines[l][1].id = i
       /\ lines[Len(lines)] = cur_line

\* three children, the second starting with a break and the third ending with one: two
\* lines, the second led by the second child without its break
C31_Witness ==
    /\ pc = "exhausted"
    /\ Len(body) = 3
    /\ body[1].kids = <<"span">> /\ body[2].kids = <<"br", "span">>
    /\ body[3].kids = <<"span", "br">>
    /\ Len(lines) = 2 /\ Len(lines[1]) = 1 /\ Len(lines[2]) = 2
    /\ lines[2][1] = Elem(2, <<"span">>)

-----------------------------------------------------------------------------
(* Properties of SystemMessage.from_line, checked under SpecLines *)

\* the shapes tested for a first-cell text: those filed under its last LAST_N characters
\* when some shape is filed there, else those of the wildcard bucket
Candidates(first_text) ==
    LET last == Slice(first_text, -LAST_N, Len(first_text))
    IN  IF \E i \in DOMAIN SystemMessages : last_n(SystemMessages[i].regex) = last
        THEN SelectSeq(SystemMessages, LAMBDA c : last_n(c.regex) = last)
        ELSE SelectSeq(SystemMessages, LAMBDA c : last_n(c.regex) = None)

\* the candidates whose full pattern matches the text, by position
Matching(first_text) ==
    { k \in DOMAIN Candidates(first_text) :
         fullmatch(Candidates(first_text)[k].regex, first_text) # <<>> }

\* C32 as stated: for every line of the text that has a first cell,
\* SystemMessage.from_line builds the message of the first candidate whose full pattern
\* matches the cell's text, and reports a miss when no candidate matches; it never ends
\* with another exception.
C32_Dispatch ==
    \A i \in DOMAIN lines :
       ~NoIndex(lines[i], 0) =>
          LET first_text == get_text(Item(lines[i], 0))
              hits == Matching(first_text)
              r == SystemMessageFromLine(lines[i])
          IN  IF hits = {}
              THEN r.raised = NotMessage
              ELSE /\ r.raised = ""
                   /\ r.value.type =
                        Candidates(first_text)[CHOOSE k \in hits : \A j \in hits : k <= j].cls

-----------------------------------------------------------------------------
(* Properties of the Games row, checked under SpecSee *)

\* C33: a call of see_message never lowers the message_count of a row of Games, replaces
\* from_log only by a log of that game whose message count is at least the stored one,
\* leaves first_log as the inserting call wrote it, and returns 1 (a game newly added)
\* exactly when it inserted the row.
C33_RicherLog ==
    [][\A l \in SeenLogs :
          SeeMessage(l) =>
             /\ \A g \in Gists :
                   db[g] # <<>> =>
                      /\ db'[g] # <<>>
                      /\ db'[g][1].message_count >= db[g][1].message_count
                      /\ db'[g][1].first_log = db[g][1].first_log
                      /\ db'[g][1].from_log # db[g][1].from_log =>
                            /\ g = l.gist
                            /\ db'[g][1].from_log = l.digest
                            /\ l.message_count >= db[g][1].message_count
                            /\ db'[g][1].message_count = l.message_count
             /\ \A g \in Gists :
                   (db[g] = <<>> /\ db'[g] # <<>>) =>
                      /\ g = l.gist
                      /\ db'[g][1].first_log = l.digest
             /\ out'[Len(out')] = (IF db[l.gist] = <<>> THEN 1 ELSE 0)
      ]_vars

\* log a inserted the row of its game, log b replaced it, and the two calls after that
\* changed nothing of the row
C33_Witness ==
    /\ db["g1"] = << [gist |-> "g1", from_log |-> "b", first_log |-> "a", message_count |-> 7] >>
    /\ out = <<1, 0, 0, 0>>

-----------------------------------------------------------------------------
(* Properties of the order of DayTime, checked under SpecOrder *)

\* C34: of three compared DayTime values none is below itself, a value below a second
\* that is below a third is below the third, of two different values exactly one is below
\* the other, and (n, day) is below (n, night), which is below (n + 1, day).
C34_TotalOrder ==
    pc = "returned" =>
       /\ \A i \in 1..3 : ~out[i][i]
       /\ \A i, j, k \in 1..3 : (out[i][j] /\ out[j][k]) => out[i][k]
       /\ \A i, j \in 1..3 : operands[i] # operands[j] => (out[i][j] <=> ~out[j][i])
       /\ \A i, j \in 1..3 :
             (\/ /\ operands[i].day = operands[j].day
                 /\ operands[i].time = "DAY" /\ operands[j].time = "NIGHT"
              \/ /\ operands[i].day + 1 = operands[j].day
                 /\ operands[i].time = "NIGHT" /\ operands[j].time = "DAY")
               => out[i][j]

\* day 2, night 2 and day 3 were compared
C34_Witness ==
    /\ pc = "returned"
    /\ operands = <<DayTime(2, "DAY"), DayTime(2, "NIGHT"), DayTime(3, "DAY")>>
    /\ out[1][2] /\ out[2][3] /\ out[1][3] /\ ~out[3][1]

-----------------------------------------------------------------------------
(* Properties of the identities that result() leaves, checked under SpecVampire *)

\* C35 as stated: result() leaves the starting identity, role and faction, of every
\* player of the roster as it was, whichever players it reclassifies.
C35_StartingKept ==
    [][ResultStep =>
          \A i \in DOMAIN players :
             objs'[players[i]].starting_ident = objs[players[i]].starting_ident
      ]_vars

-----------------------------------------------------------------------------
(* Properties of the won flags that result() leaves, checked under Spec *)

\* C36 as stated: when result() ends with a draw (victor None) or with the victor
\* unresolved, it sets won on no player: every player of the roster has the won flag it
\* had before the call.
C36_DrawCrownsNobody ==
    [][(ResultStep /\ victor' \in {"None", unknown}) =>
          \A i \in DOMAIN players : objs'[players[i]].won = objs[players[i]].won
      ]_vars

-----------------------------------------------------------------------------
(* Properties of the modifiers that result() passes on, checked under SpecRoster *)

\* how often a tag occurs in self.modifiers
Times(tag) == Cardinality({ k \in DOMAIN modifiers : modifiers[k] = tag })

\* C37 as stated: the modifiers result() hands to GameResult hold "Town Traitor" at most
\* once and "VIP" at most once.
C37_TagsOnce ==
    AtReturn => (Times("Town Traitor") <= 1 /\ Times("VIP") <= 1)

-----------------------------------------------------------------------------
(* Properties of the recorded times, checked under Spec *)

\* C38 as stated: every death time the analyzer has recorded and the hunt-reached value,
\* once set, have a day index of at least 1.
C38_TimesFromDayOne ==
    /\ \A i \in DOMAIN players :
          objs[players[i]].died # <<>> => objs[players[i]].died[1] >= 1
    /\ hunt_reached # <<>> => hunt_reached[1] >= 1

-----------------------------------------------------------------------------
(* Properties of the VIP that result() passes on, checked under SpecVip *)

\* C39 as stated: when result() hands a VIP to GameResult, the VIP is one of the players
\* of the roster, and the place it has among them is its seat number (its index in the
\* tuple is its number minus 1).
C39_VipInPlayers ==
    (AtReturn /\ vip # <<>>) =>
       /\ \E i \in DOMAIN players : players[i] = vip[1]
       /\ objs[vip[1]].number \in DOMAIN players
       /\ players[objs[vip[1]].number] = vip[1]

-----------------------------------------------------------------------------
(* Messages without a case in get_message, checked under SpecCounted *)

\* C40: a Chat, DeadChat, Whispering or StartJunk message, and a TrialsRemaining received
\* while trial_period is already set, leave every attribute of the ResultAnalyzer as it
\* was and raise nothing, so the result or error that follows is the one that would have
\* followed without them; MessageCountAnalyzer counts the message.
C40_IgnoredMessages ==
    [][(GetOther \/ (trial_period /\ GetTrialsRemaining)) =>
          /\ UNCHANGED <<analyzer, pc, err, victor, branch>>
          /\ count' = count + 1
      ]_vars

\* result() has run on a log in which, besides the player list and the first
\* TrialsRemaining, at least one such message was received
C40_Witness ==
    /\ AtReturn
    /\ trial_period
    /\ ~death_popped
    /\ count >= Len(players) + 2

====
